---- MODULE Spec2Model ----
(***************************************************************************)
(* State-machine model of the beer festival single-page application        *)
(* (class BeerFestivalApp).  Text is modelled as a sequence of             *)
(* one-character strings, so that trimming, number extraction and the      *)
(* "brewery|beer" cache key are computed the way the JavaScript computes   *)
(* them.  The remote table beer_availability is shared by every browser    *)
(* that runs the page; each browser is one element of Clients.             *)
(***************************************************************************)
EXTENDS Integers, Sequences, FiniteSets, TLC

VARIABLES
    store,            \* the remote table beer_availability: a set of rows
    supabase,         \* per client: TRUE = client object, FALSE = null
    beers,            \* per client: this.beers
    filteredBeers,    \* per client: this.filteredBeers
    beerAvailability, \* per client: the Map joined key -> availability info
    localStorage,     \* per client: <<>> or <<id>> under 'beer_tracker_user_id'
    clock,            \* per client: Date.now(), in units of a write's round trip
    hidden,           \* per client: which of loading / error / table is hidden
    initPc,           \* per client: position inside init()
    initResp,         \* per client: bulk select response on its way to init()
    toggles,          \* the toggleBeerAvailability invocations started so far
    served,           \* per client: the store has served a call of the client
    currentSort,      \* per client: this.currentSort
    elements,         \* per client: the values and options of the filter inputs
    last,             \* per client: the last input handler run, and whether it threw
    tableBody,        \* per client: the rows renderTable has put in the table
    input,            \* the arguments of a function applied on its own
    output            \* <<>>, or <<its result>>

vars == <<store, supabase, beers, filteredBeers, beerAvailability, localStorage,
          clock, hidden, initPc, initResp, toggles, served, currentSort, elements,
          last, tableBody, input, output>>

\* what the filter and sort handlers read and write
viewVars == <<currentSort, elements, last, tableBody>>

appVars == <<store, supabase, beers, filteredBeers, beerAvailability,
             localStorage, clock, hidden, initPc, initResp, toggles, served,
             viewVars>>

(***************************************************************************)
(* Bounds of the model.                                                    *)
(***************************************************************************)
MaxToggles == 2
MaxRows == 2

\* the browsers that have the page open
Clients == DOMAIN supabase

(***************************************************************************)
(* Text.                                                                   *)
(***************************************************************************)
WhiteSpace == {" ", "\t"}

Digits == {"0", "1", "2", "3", "4", "5", "6", "7", "8", "9"}

DigitVal(ch) ==
    CASE ch = "0" -> 0 [] ch = "1" -> 1 [] ch = "2" -> 2 [] ch = "3" -> 3
      [] ch = "4" -> 4 [] ch = "5" -> 5 [] ch = "6" -> 6 [] ch = "7" -> 7
      [] ch = "8" -> 8 [] ch = "9" -> 9

RECURSIVE TrimStart(_)
TrimStart(s) ==
    IF s # <<>> /\ Head(s) \in WhiteSpace THEN TrimStart(Tail(s)) ELSE s

RECURSIVE TrimEnd(_)
TrimEnd(s) ==
    IF s # <<>> /\ s[Len(s)] \in WhiteSpace
    THEN TrimEnd(SubSeq(s, 1, Len(s) - 1))
    ELSE s

\* String.prototype.trim
trim(s) == TrimEnd(TrimStart(s))

\* the characters of the model's texts, in the order of their code units
CodeUnits ==
    <<"\t", " ", "%", ",", ".", "/", "0", "1", "2", "3", "4", "5", "6",
      "7", "8", "9", "A", "B", "C", "D", "E", "F", "G", "H", "I", "J", "K",
      "L", "M", "N", "O", "P", "Q", "R", "S", "T", "U", "V", "W", "X", "Y",
      "Z", "a", "b", "c", "d", "e", "f", "g", "h", "i", "j", "k", "l", "m",
      "n", "o", "p", "q", "r", "s", "t", "u", "v", "w", "x", "y", "z", "|">>

\* the place of each character in that order
CodeOf ==
    [ch \in {CodeUnits[i] : i \in DOMAIN CodeUnits} |->
        CHOOSE i \in DOMAIN CodeUnits : CodeUnits[i] = ch]

CharCode(ch) == CodeOf[ch]

UpperCase ==
    <<"A", "B", "C", "D", "E", "F", "G", "H", "I", "J", "K", "L", "M", "N",
      "O", "P", "Q", "R", "S", "T", "U", "V", "W", "X", "Y", "Z">>

LowerCase ==
    <<"a", "b", "c", "d", "e", "f", "g", "h", "i", "j", "k", "l", "m", "n",
      "o", "p", "q", "r", "s", "t", "u", "v", "w", "x", "y", "z">>

\* the lower-case form of each character
LowerOf ==
    [ch \in {CodeUnits[i] : i \in DOMAIN CodeUnits} |->
        IF \E k \in DOMAIN UpperCase : UpperCase[k] = ch
        THEN LowerCase[CHOOSE k \in DOMAIN UpperCase : UpperCase[k] = ch]
        ELSE ch]

\* String.prototype.toLowerCase
toLowerCase(s) == [i \in DOMAIN s |-> LowerOf[s[i]]]

\* String.prototype.includes
includes(s, sub) ==
    \E i \in 0..(Len(s) - Len(sub)) : SubSeq(s, i + 1, i + Len(sub)) = sub

\* a < b on strings: the first code unit that differs decides, a proper
\* prefix is less
StrLess(a, b) ==
    \E k \in 1..(Len(b)) :
        /\ k - 1 <= Len(a)
        /\ \A j \in 1..(k - 1) : a[j] = b[j]
        /\ k > Len(a) \/ CharCode(a[k]) < CharCode(b[k])

\* the literal 'Brewery' of the header test
BreweryLiteral == <<"B", "r", "e", "w", "e", "r", "y">>

(***************************************************************************)
(* parseABV: the first run of digits, with an optional point and further   *)
(* digits after it, read by parseFloat.  A number is kept in thousandths   *)
(* (4.5 is 4500).                                                          *)
(***************************************************************************)
AbvUnit == 10 * 10 * 10

\* index of the first digit of s at or after i, 0 when there is none
RECURSIVE FirstDigit(_, _)
FirstDigit(s, i) ==
    IF i > Len(s) THEN 0
    ELSE IF s[i] \in Digits THEN i
    ELSE FirstDigit(s, i + 1)

\* index of the last character of the digit run that starts at i
RECURSIVE DigitRunEnd(_, _)
DigitRunEnd(s, i) ==
    IF i + 1 <= Len(s) /\ s[i + 1] \in Digits THEN DigitRunEnd(s, i + 1) ELSE i

\* the integer written by the digits s[i..j]
RECURSIVE IntOf(_, _, _)
IntOf(s, i, j) ==
    IF j < i THEN 0 ELSE 10 * IntOf(s, i, j - 1) + DigitVal(s[j])

\* the fraction .s[i..j] in thousandths (digits past the third are dropped)
RECURSIVE FracOf(_, _, _, _)
FracOf(s, i, j, unit) ==
    IF j < i \/ unit = 0 THEN 0
    ELSE DigitVal(s[i]) * unit + FracOf(s, i + 1, j, unit \div 10)

\* a parse that stops at the decimal point
parseABVInteger(abvText) ==
    LET i == FirstDigit(abvText, 1) IN
    IF i = 0 THEN 0
    ELSE IntOf(abvText, i, DigitRunEnd(abvText, i)) * AbvUnit

parseABV(abvText) ==
    LET i == FirstDigit(abvText, 1) IN
    IF i = 0 THEN 0
    ELSE LET j == DigitRunEnd(abvText, i)
             dot == j + 1 <= Len(abvText) /\ abvText[j + 1] = "."
             k == IF dot /\ j + 2 <= Len(abvText) /\ abvText[j + 2] \in Digits
                  THEN DigitRunEnd(abvText, j + 2)
                  ELSE j + 1
         IN  IntOf(abvText, i, j) * AbvUnit
             + (IF dot THEN FracOf(abvText, j + 2, k, AbvUnit \div 10) ELSE 0)

(***************************************************************************)
(* parseHtmlData: the rows of the document are sequences of td cells.      *)
(***************************************************************************)
\* the record a row with at least 6 cells is read as
beerEntry(cells) ==
    [brewery  |-> trim(cells[1]),
     beer     |-> trim(cells[2]),
     style    |-> trim(cells[3]),
     abv      |-> parseABV(trim(cells[4])),
     location |-> trim(cells[5]),
     bar      |-> trim(cells[6])]

\* a test that wants more than 6 cells
RowAcceptedOver6(cells) ==
    /\ Len(cells) > 6
    /\ trim(cells[1]) # <<>>
    /\ trim(cells[2]) # <<>>
    /\ trim(cells[1]) # BreweryLiteral

\* if (cells.length >= 6) ... if (brewery && beer && brewery !== 'Brewery')
RowAccepted(cells) ==
    /\ Len(cells) >= 6
    /\ trim(cells[1]) # <<>>
    /\ trim(cells[2]) # <<>>
    /\ trim(cells[1]) # BreweryLiteral

\* the loop over the rows, pushing onto beerData
RECURSIVE beerData(_)
beerData(rows) ==
    IF rows = <<>> THEN <<>>
    ELSE LET rest == beerData(SubSeq(rows, 1, Len(rows) - 1))
             cells == rows[Len(rows)]
         IN  IF RowAccepted(cells) THEN Append(rest, beerEntry(cells)) ELSE rest

\* parseHtmlData throws when beerData is empty
ParseThrows(rows) == beerData(rows) = <<>>

(***************************************************************************)
(* extractCleanBeerStyle: the ordered table of core types, and the two     *)
(* loops that return the category of the first keyword found.  null is     *)
(* <<>> and a category c is <<c>>.                                         *)
(***************************************************************************)
coreTypes ==
    <<
       [keywords |-> <<<<"i", "p", "a">>,
                      <<"i", "n", "d", "i", "a", " ", "p", "a", "l", "e", " ", "a", "l", "e">>>>,
        category |-> <<"I", "P", "A">>],
       [keywords |-> <<<<"b", "i", "t", "t", "e", "r">>>>,
        category |-> <<"B", "i", "t", "t", "e", "r">>],
       [keywords |-> <<<<"g", "o", "l", "d", "e", "n", " ", "a", "l", "e">>,
                      <<"g", "o", "l", "d", "e", "n">>>>,
        category |-> <<"G", "o", "l", "d", "e", "n", " ", "A", "l", "e">>],
       [keywords |-> <<<<"p", "a", "l", "e", " ", "a", "l", "e">>>>,
        category |-> <<"P", "a", "l", "e", " ", "A", "l", "e">>],
       [keywords |-> <<<<"a", "m", "b", "e", "r", " ", "a", "l", "e">>>>,
        category |-> <<"A", "m", "b", "e", "r", " ", "A", "l", "e">>],
       [keywords |-> <<<<"b", "r", "o", "w", "n", " ", "a", "l", "e">>>>,
        category |-> <<"B", "r", "o", "w", "n", " ", "A", "l", "e">>],
       [keywords |-> <<<<"m", "i", "l", "d">>>>,
        category |-> <<"M", "i", "l", "d">>],
       [keywords |-> <<<<"o", "l", "d", " ", "a", "l", "e">>>>,
        category |-> <<"O", "l", "d", " ", "A", "l", "e">>],
       [keywords |-> <<<<"s", "t", "r", "o", "n", "g", " ", "a", "l", "e">>>>,
        category |-> <<"S", "t", "r", "o", "n", "g", " ", "A", "l", "e">>],
       [keywords |-> <<<<"b", "a", "r", "l", "e", "y", " ", "w", "i", "n", "e">>>>,
        category |-> <<"B", "a", "r", "l", "e", "y", " ", "W", "i", "n", "e">>],
       [keywords |-> <<<<"s", "t", "o", "u", "t">>>>,
        category |-> <<"S", "t", "o", "u", "t">>],
       [keywords |-> <<<<"p", "o", "r", "t", "e", "r">>>>,
        category |-> <<"P", "o", "r", "t", "e", "r">>],
       [keywords |-> <<<<"w", "h", "e", "a", "t">>,
                      <<"w", "e", "i", "z", "e", "n">>,
                      <<"w", "i", "t", "b", "i", "e", "r">>>>,
        category |-> <<"W", "h", "e", "a", "t", " ", "B", "e", "e", "r">>],
       [keywords |-> <<<<"p", "i", "l", "s", "n", "e", "r">>,
                      <<"p", "i", "l", "s">>>>,
        category |-> <<"P", "i", "l", "s", "n", "e", "r">>],
       [keywords |-> <<<<"l", "a", "g", "e", "r">>>>,
        category |-> <<"L", "a", "g", "e", "r">>],
       [keywords |-> <<<<"s", "a", "i", "s", "o", "n">>>>,
        category |-> <<"S", "a", "i", "s", "o", "n">>],
       [keywords |-> <<<<"s", "o", "u", "r">>,
                      <<"g", "o", "s", "e">>,
                      <<"l", "a", "m", "b", "i", "c">>>>,
        category |-> <<"S", "o", "u", "r">>],
       [keywords |-> <<<<"c", "i", "d", "e", "r">>>>,
        category |-> <<"C", "i", "d", "e", "r">>],
       [keywords |-> <<<<"p", "e", "r", "r", "y">>>>,
        category |-> <<"P", "e", "r", "r", "y">>],
       [keywords |-> <<<<"a", "l", "e">>>>,
        category |-> <<"A", "l", "e">>]
    >>

\* for (const keyword of type.keywords) if (lowerStyle.includes(keyword)) ...
RECURSIVE KeywordFound(_, _)
KeywordFound(keywords, lowerStyle) ==
    IF keywords = <<>> THEN FALSE
    ELSE IF includes(lowerStyle, Head(keywords)) THEN TRUE
    ELSE KeywordFound(Tail(keywords), lowerStyle)

\* a loop that goes on to the last type that matches
RECURSIVE LastMatch(_, _)
LastMatch(types, lowerStyle) ==
    IF types = <<>> THEN <<>>
    ELSE IF KeywordFound(types[Len(types)].keywords, lowerStyle)
         THEN <<types[Len(types)].category>>
         ELSE LastMatch(SubSeq(types, 1, Len(types) - 1), lowerStyle)

\* for (const type of coreTypes) ... return type.category; return null
RECURSIVE FirstMatch(_, _)
FirstMatch(types, lowerStyle) ==
    IF types = <<>> THEN <<>>
    ELSE IF KeywordFound(Head(types).keywords, lowerStyle)
         THEN <<Head(types).category>>
         ELSE FirstMatch(Tail(types), lowerStyle)

extractCleanBeerStyle(styleText) == FirstMatch(coreTypes, toLowerCase(styleText))

(***************************************************************************)
(* The page the festival serves: rows of td cells.                         *)
(***************************************************************************)
HeaderRow ==
    <<BreweryLiteral, <<"B", "e", "e", "r">>, <<"S">>, <<"A">>, <<"L">>, <<"B">>>>

FestivalPage ==
    << HeaderRow,
       << <<"a">>, <<"b">>, <<"i", "p", "a">>, <<"4", ".", "5", "%">>,
          <<"t">>, <<"x">> >>,
       << <<" ", "c">>, <<"d", " ">>, <<"m", "i", "l", "d">>,
          <<"N", "/", "A">>, <<"t">>, <<"y">> >> >>

\* a page whose table has changed shape: no row is accepted
BrokenPage == << HeaderRow, << <<"a">>, <<"b">>, <<"4", "%">> >> >>

Pages == {FestivalPage, BrokenPage}

(***************************************************************************)
(* The availability cache (a JavaScript Map) and its key.                  *)
(***************************************************************************)
\* `${brewery}|${beer}`
Key(brewery, name) == brewery \o <<"|">> \o name

EmptyMap == [k \in {} |-> FALSE]

\* Map.prototype.set
MapSet(m, k, v) == [x \in (DOMAIN m) \cup {k} |-> IF x = k THEN v ELSE m[x]]

\* the value loadBeerAvailability stores for a row
InfoOf(item) ==
    [is_available |-> item.is_available,
     updated_by   |-> item.updated_by,
     updated_at   |-> item.updated_at]

\* data.forEach(item => this.beerAvailability.set(key, {...}))
RECURSIVE forEachSet(_, _)
forEachSet(m, data) ==
    IF data = <<>> THEN m
    ELSE forEachSet(MapSet(m, Key(Head(data).brewery, Head(data).beer_name),
                           InfoOf(Head(data))),
                    Tail(data))

\* a load that does not clear the Map
ClearedNot(m) == m

\* this.beerAvailability.clear()
Cleared(m) == EmptyMap

\* a load that leaves the Map as it finds it
ReloadedKept(m, data) == m

\* the Map after loadBeerAvailability has been handed data
Reloaded(m, data) == forEachSet(Cleared(m), data)

getBeerAvailabilityInfo(c, beer) ==
    LET key == Key(beer.brewery, beer.beer)
    IN  IF key \in DOMAIN beerAvailability[c]
        THEN <<beerAvailability[c][key]>>
        ELSE <<>>

getBeerAvailability(c, beer) ==
    LET data == getBeerAvailabilityInfo(c, beer)
    IN  IF data # <<>> THEN data[1].is_available ELSE FALSE

\* renderTable() of the beers shown, with the Map m: a row has the class
\* beer-available when the Map marks its beer available, and its first cell
\* the time of the entry of an available beer, or 'Never' (no time)
renderTable(shown, m) ==
    [i \in DOMAIN shown |->
        LET key == Key(shown[i].brewery, shown[i].beer)
            known == key \in DOMAIN m
        IN  [beer |-> shown[i],
             isAvailable |-> known /\ m[key].is_available,
             lastSeen |-> IF known /\ m[key].is_available
                          THEN <<m[key].updated_at>>
                          ELSE <<>>]]

(***************************************************************************)
(* The remote table.  It is keyed by (brewery, beer_name): the earlier     *)
(* revision of the write relies on that key (onConflict), so an insert of  *)
(* a key that is present is rejected.  A select without ORDER BY returns   *)
(* the rows in any order.                                                  *)
(***************************************************************************)
Matching(rows, brewery, name) ==
    {r \in rows : r.brewery = brewery /\ r.beer_name = name}

\* .select(...) of the whole table: every order of the rows
SelectAll(rows) ==
    {f \in [1..Cardinality(rows) -> rows] :
        \A i, j \in 1..Cardinality(rows) : i # j => f[i] # f[j]}

\* .eq('brewery', ...).eq('beer_name', ...).single(): a row only when exactly
\* one row matches
Single(rows, brewery, name) ==
    IF Cardinality(Matching(rows, brewery, name)) = 1
    THEN Matching(rows, brewery, name)
    ELSE {}

\* the key (brewery, beer_name) of the table
KeyConflict(rows, row) == Matching(rows, row.brewery, row.beer_name) # {}

\* an update without its two filters
UpdatedEveryRow(rows, req) ==
    {[r EXCEPT !.is_available = req.is_available,
               !.updated_by = req.updated_by,
               !.updated_at = req.updated_at] : r \in rows}

\* .update(values).eq('brewery', ...).eq('beer_name', ...)
Updated(rows, req) ==
    {IF r \in Matching(rows, req.brewery, req.beer_name)
     THEN [r EXCEPT !.is_available = req.is_available,
                    !.updated_by = req.updated_by,
                    !.updated_at = req.updated_at]
     ELSE r : r \in rows}

\* .insert(row)
Inserted(rows, req) ==
    rows \cup {[brewery |-> req.brewery, beer_name |-> req.beer_name,
                is_available |-> req.is_available,
                updated_by |-> req.updated_by,
                updated_at |-> req.updated_at]}

\* what the table holds once it has applied a write request
Applied(rows, req) ==
    IF req.kind = "update" THEN Updated(rows, req) ELSE Inserted(rows, req)

\* the table rejects the request
Rejected(rows, req) == req.kind = "insert" /\ KeyConflict(rows, req)

(***************************************************************************)
(* The filter inputs.  A text input or select holds a text, the            *)
(* availability select one of '', 'available', 'unavailable', and a range  *)
(* input the decimal text of a number, kept here as the number parseFloat  *)
(* reads back from it, in thousandths.                                     *)
(***************************************************************************)
\* the inputs as the markup of the page leaves them; the markup is not part
\* of the sources, and the values of its sliders are in force only while no
\* beer with a positive ABV is loaded
MarkupElements ==
    [searchInput |-> <<>>, barFilter |-> <<>>, styleFilter |-> <<>>,
     availabilityFilter |-> "", abvMin |-> 0, abvMax |-> 0,
     abvLow |-> 0, abvHigh |-> 0, barOptions |-> <<>>, styleOptions |-> <<>>]

\* Array.prototype.sort without a comparator, on distinct strings
RECURSIVE SortStrings(_)
SortStrings(S) ==
    IF S = {} THEN <<>>
    ELSE LET m == CHOOSE x \in S : \A y \in S \ {x} : StrLess(x, y)
         IN  <<m>> \o SortStrings(S \ {m})

\* Math.floor and Math.ceil of a number of thousandths
Floor(x) == (x \div AbvUnit) * AbvUnit

Ceil(x) == ((x + AbvUnit - 1) \div AbvUnit) * AbvUnit

MinOf(S) == CHOOSE x \in S : \A y \in S : x <= y

MaxOf(S) == CHOOSE x \in S : \A y \in S : x >= y

\* style options that take the raw style of a beer without a category
StyleOptionsWithRaw(bs) ==
    SortStrings({IF extractCleanBeerStyle(bs[i].style) = <<>>
                 THEN bs[i].style
                 ELSE extractCleanBeerStyle(bs[i].style)[1] : i \in DOMAIN bs})

\* [...new Set(this.beers.map(...))].filter(style => style !== null).sort()
StyleOptions(bs) ==
    LET styles == {extractCleanBeerStyle(bs[i].style) : i \in DOMAIN bs} \ {<<>>}
    IN  SortStrings({st[1] : st \in styles})

\* a populateFilters() that leaves the sliders as the markup has them
populateFiltersKeepingRange(bs, el) ==
    LET bars == {bs[i].bar : i \in DOMAIN bs} \ {<<>>}
    IN  [el EXCEPT !.barFilter = <<>>,
                   !.styleFilter = <<>>,
                   !.barOptions = SortStrings(bars),
                   !.styleOptions = StyleOptions(bs)]

\* populateFilters(): both selects are rebuilt, which puts them back on
\* their "All" option, and the sliders are set to the range of the ABVs
populateFilters(bs, el) ==
    LET bars == {bs[i].bar : i \in DOMAIN bs} \ {<<>>}
        abvValues == {bs[i].abv : i \in DOMAIN bs} \ {0}
        ranged == [el EXCEPT !.abvLow = Floor(MinOf(abvValues)),
                             !.abvHigh = Ceil(MaxOf(abvValues)),
                             !.abvMin = Floor(MinOf(abvValues)),
                             !.abvMax = Ceil(MaxOf(abvValues))]
    IN  [(IF abvValues # {} THEN ranged ELSE el) EXCEPT
            !.barFilter = <<>>,
            !.styleFilter = <<>>,
            !.barOptions = SortStrings(bars),
            !.styleOptions = StyleOptions(bs)]

(***************************************************************************)
(* Application state after the constructor.                                *)
(***************************************************************************)
UserIds == {"User_p", "User_q"}

NoToggle == <<>>

\* a row an earlier session has left in the table
SeedRow ==
    [brewery |-> <<"a">>, beer_name |-> <<"b">>, is_available |-> TRUE,
     updated_by |-> "User_p", updated_at |-> 0]

\* the state once each of the browsers bs has run the constructor, the
\* table holding rows
Constructed(bs, rows) ==
    /\ store = rows
    /\ supabase \in [bs -> BOOLEAN]
    /\ beers = [c \in bs |-> <<>>]
    /\ filteredBeers = [c \in bs |-> <<>>]
    /\ beerAvailability = [c \in bs |-> EmptyMap]
    /\ localStorage = [c \in bs |-> <<>>]
    /\ clock = [c \in bs |-> 1]
    /\ hidden = [c \in bs |-> [loading |-> FALSE, error |-> TRUE, table |-> TRUE]]
    /\ initPc = [c \in bs |-> "fetch"]
    /\ initResp = [c \in bs |-> <<>>]
    /\ toggles = NoToggle
    /\ served = [c \in bs |-> FALSE]
    /\ currentSort = [c \in bs |-> [column |-> "", direction |-> "asc"]]
    /\ elements = [c \in bs |-> MarkupElements]
    /\ last = [c \in bs |-> [op |-> "", threw |-> FALSE]]
    /\ tableBody = [c \in bs |-> <<>>]

\* no function is applied on its own
NoCall == input = <<>> /\ output = <<>>

Init == Constructed({"c1"}, {}) /\ NoCall

(***************************************************************************)
(* init(): loadFreshBeerData, then loadBeerAvailability.                   *)
(***************************************************************************)
\* a catch block that hides the loading line and shows nothing
showErrorNot(h) == [h EXCEPT !.loading = TRUE]

\* showError()
showError(h) == [h EXCEPT !.loading = TRUE, !.error = FALSE]

\* hideLoading()
hideLoading(h) == [h EXCEPT !.loading = TRUE, !.table = FALSE]

\* the position init() is at once loadFreshBeerData has returned:
\* loadBeerAvailability returns at once without a client
AfterFresh(c) == IF supabase[c] THEN "avail" ELSE "ready"

\* the fetch returns page and parseHtmlData succeeds on it: the beers are
\* assigned, the filters populated, the table rendered and shown
loadedPage(c, page) ==
    /\ initPc[c] = "fetch"
    /\ ~ParseThrows(page)
    /\ beers' = [beers EXCEPT ![c] = beerData(page)]
    /\ filteredBeers' = [filteredBeers EXCEPT ![c] = beerData(page)]
    /\ elements' = [elements EXCEPT ![c] = populateFilters(beerData(page), @)]
    /\ tableBody' = [tableBody EXCEPT ![c] =
          renderTable(filteredBeers'[c], beerAvailability[c])]
    /\ hidden' = [hidden EXCEPT ![c] = hideLoading(@)]
    /\ initPc' = [initPc EXCEPT ![c] = AfterFresh(c)]
    /\ UNCHANGED <<clock, store, supabase, beerAvailability, localStorage, initResp,
                   toggles, served, currentSort, last, input, output>>

\* the fetch of the page returns and parseHtmlData succeeds
loadFreshBeerDataOk(c) == \E page \in Pages : loadedPage(c, page)

\* the fetch fails, the response is not ok, or parseHtmlData throws
loadFreshBeerDataFails(c) ==
    /\ initPc[c] = "fetch"
    /\ hidden' = [hidden EXCEPT ![c] = showError(@)]
    /\ initPc' = [initPc EXCEPT ![c] = AfterFresh(c)]
    /\ UNCHANGED <<clock, store, supabase, beers, filteredBeers, beerAvailability,
                   localStorage, initResp, toggles, served, viewVars, input, output>>

\* the table serves the bulk select of init()
initLoadServed(c) ==
    /\ initPc[c] = "avail"
    /\ initResp' = [initResp EXCEPT ![c] = <<store>>]
    /\ initPc' = [initPc EXCEPT ![c] = "apply"]
    /\ served' = [served EXCEPT ![c] = TRUE]
    /\ UNCHANGED <<store, supabase, beers, filteredBeers, beerAvailability,
                   localStorage, clock, hidden, toggles, viewVars, input, output>>

\* the bulk select of init() returns an error or throws: the cache is kept
initLoadFails(c) ==
    /\ initPc[c] = "avail"
    /\ initPc' = [initPc EXCEPT ![c] = "ready"]
    /\ UNCHANGED <<clock, store, supabase, beers, filteredBeers, beerAvailability,
                   localStorage, hidden, initResp, toggles, served, viewVars, input, output>>

\* the response of the bulk select reaches init(): clear, then set every row
initLoadReturns(c) ==
    /\ initPc[c] = "apply"
    /\ \E data \in SelectAll(initResp[c][1]) :
          beerAvailability' = [beerAvailability EXCEPT ![c] = Reloaded(@, data)]
    /\ initResp' = [initResp EXCEPT ![c] = <<>>]
    /\ initPc' = [initPc EXCEPT ![c] = "ready"]
    /\ UNCHANGED <<clock, store, supabase, beers, filteredBeers, localStorage, hidden,
                   toggles, served, viewVars, input, output>>

(***************************************************************************)
(* toggleBeerAvailability(beer).  An invocation is a record of toggles:    *)
(* its locals (currentStatus, recordExists, request), its position pc, and *)
(* what happened to it (read, data, write, order, alert, reload, calls).   *)
(***************************************************************************)
\* 'User_' + Math.random()...: the ids are random and interchangeable, so the one the
\* first browser draws is called User_p; another browser draws the same id
\* or a different one
RandomUserId(c) == IF c = "c1" THEN {"User_p"} ELSE UserIds

\* a getUserId() that draws a fresh id on every call
getUserIdFresh(c) == RandomUserId(c)

\* getUserId(): the stored id, or a fresh random one that is stored
getUserId(c) ==
    IF localStorage[c] # <<>> THEN {localStorage[c][1]} ELSE RandomUserId(c)

\* a toggle that never looks at the row it has read
CurrentStatusUnset(data) == FALSE

\* if (!fetchError && currentData) { currentStatus = currentData.is_available ...
CurrentStatus(data) ==
    IF data # {} THEN (CHOOSE r \in data : TRUE).is_available ELSE FALSE

\* a toggle that never notes that the record exists
RecordExistsNever(data) == FALSE

\* ... recordExists = true }
RecordExists(data) == data # {}

\* const newStatus = !currentStatus
NewStatus(currentStatus) == ~currentStatus

\* a request stamped with a fixed time
RequestUndated(recordExists, beer, newStatus, userId, now) ==
    [kind         |-> IF recordExists THEN "update" ELSE "insert",
     brewery      |-> beer.brewery,
     beer_name    |-> beer.beer,
     is_available |-> newStatus,
     updated_by   |-> userId,
     updated_at   |-> 0]

\* the update or the insert the toggle issues
Request(recordExists, beer, newStatus, userId, now) ==
    [kind         |-> IF recordExists THEN "update" ELSE "insert",
     brewery      |-> beer.brewery,
     beer_name    |-> beer.beer,
     is_available |-> newStatus,
     updated_by   |-> userId,
     updated_at   |-> now]

\* the beers of the rows the user can click
Rendered(c) == IF hidden[c].table THEN {} ELSE {filteredBeers[c][i] : i \in DOMAIN filteredBeers[c]}

NewToggle(c, beer) ==
    [client |-> c, beer |-> beer, pc |-> "read",
     currentStatus |-> FALSE, recordExists |-> FALSE, request |-> <<>>,
     read |-> "", data |-> {}, write |-> "", alert |-> "", reload |-> "",
     resp |-> <<>>, order |-> 0,
     calls |-> [read |-> 1, write |-> 0, reload |-> 0]]

\* the user picks "availability" in the action menu of a row: without a
\* client the alert is all that happens, with one the point read is issued
toggleBeerAvailability(c, beer) ==
    /\ Len(toggles) < MaxToggles
    /\ beer \in Rendered(c)
    /\ toggles' = Append(toggles,
          IF supabase[c]
          THEN NewToggle(c, beer)
          ELSE [NewToggle(c, beer) EXCEPT !.pc = "done", !.alert = "not available",
                                          !.calls.read = 0])
    /\ UNCHANGED <<store, supabase, beers, filteredBeers, beerAvailability,
                   localStorage, clock, hidden, initPc, initResp, served, viewVars, input,
                   output>>

\* the continuation of the point read: data is the row it returned, if any
AfterPointRead(i, outcome, data) ==
    LET t == toggles[i]
        c == t.client
        currentStatus == CurrentStatus(data)
        recordExists == RecordExists(data)
        now == clock[c]
    IN  /\ \E userId \in getUserId(c) :
              /\ localStorage' = [localStorage EXCEPT ![c] = <<userId>>]
              /\ toggles' = [toggles EXCEPT ![i] =
                    [t EXCEPT !.pc = "write",
                              !.read = outcome,
                              !.data = data,
                              !.currentStatus = currentStatus,
                              !.recordExists = recordExists,
                              !.request = <<Request(recordExists, t.beer,
                                                    NewStatus(currentStatus),
                                                    userId, now)>>,
                              !.calls.write = @ + 1]]
        /\ UNCHANGED clock

\* the point read is served: a row when exactly one matches, else the error
\* of .single() with no data
togglePointReadReturns(i) ==
    /\ i \in DOMAIN toggles
    /\ toggles[i].pc = "read"
    /\ LET t == toggles[i]
           data == Single(store, t.beer.brewery, t.beer.beer)
       IN  AfterPointRead(i, IF data = {} THEN "no row" ELSE "row", data)
    /\ served' = [served EXCEPT ![toggles[i].client] = TRUE]
    /\ UNCHANGED <<store, supabase, beers, filteredBeers, beerAvailability,
                   hidden, initPc, initResp, viewVars, input, output>>

\* a toggle that reports a failed point read and returns
togglePointReadFailsAborts(i) ==
    /\ i \in DOMAIN toggles
    /\ toggles[i].pc = "read"
    /\ toggles' = [toggles EXCEPT ![i] =
          [@ EXCEPT !.pc = "done", !.alert = "could not read"]]
    /\ UNCHANGED <<store, supabase, beers, filteredBeers, beerAvailability,
                   localStorage, clock, hidden, initPc, initResp, served, viewVars,
                   input, output>>

\* the point read returns another error, or throws: the toggle goes on as if
\* there were no row
togglePointReadFails(i) ==
    /\ i \in DOMAIN toggles
    /\ toggles[i].pc = "read"
    /\ AfterPointRead(i, "failed", {})
    /\ UNCHANGED <<store, supabase, beers, filteredBeers, beerAvailability,
                   hidden, initPc, initResp, served, viewVars, input, output>>

\* the invocation returns: its locals are gone, what the user saw stays
Returned(t) ==
    [t EXCEPT !.pc = "done", !.currentStatus = FALSE, !.recordExists = FALSE,
              !.resp = <<>>, !.read = ""]

\* the place of the next write in the order the table applies writes in
NextOrder == Cardinality({j \in DOMAIN toggles : toggles[j].order > 0}) + 1

\* the write is applied and returns no error: loadBeerAvailability is called
toggleWriteOk(i) ==
    /\ i \in DOMAIN toggles
    /\ toggles[i].pc = "write"
    /\ ~Rejected(store, toggles[i].request[1])
    /\ store' = Applied(store, toggles[i].request[1])
    /\ toggles' = [toggles EXCEPT ![i].pc = "reload", ![i].write = "ok",
                                  ![i].order = NextOrder,
                                  ![i].calls.reload = @ + 1]
    /\ clock' = [clock EXCEPT ![toggles[i].client] = @ + 1]
    /\ served' = [served EXCEPT ![toggles[i].client] = TRUE]
    /\ UNCHANGED <<supabase, beers, filteredBeers, beerAvailability,
                   localStorage, hidden, initPc, initResp, viewVars, input, output>>

\* the write returns an error (a rejected insert, or any other failure the
\* client reports as a result): alert and return
toggleWriteError(i) ==
    /\ i \in DOMAIN toggles
    /\ toggles[i].pc = "write"
    /\ toggles' = [toggles EXCEPT ![i] =
          Returned([@ EXCEPT !.write = "error", !.alert = "could not update"])]
    /\ clock' = [clock EXCEPT ![toggles[i].client] = @ + 1]
    /\ UNCHANGED <<store, supabase, beers, filteredBeers, beerAvailability,
                   localStorage, hidden, initPc, initResp, served, viewVars, input, output>>

\* the write call throws: the catch block logs to the console and returns
toggleWriteThrows(i) ==
    /\ i \in DOMAIN toggles
    /\ toggles[i].pc = "write"
    /\ toggles' = [toggles EXCEPT ![i] = Returned([@ EXCEPT !.write = "throw"])]
    /\ clock' = [clock EXCEPT ![toggles[i].client] = @ + 1]
    /\ UNCHANGED <<store, supabase, beers, filteredBeers, beerAvailability,
                   localStorage, hidden, initPc, initResp, served, viewVars, input, output>>

\* the table serves the bulk select of the reload
toggleReloadServed(i) ==
    /\ i \in DOMAIN toggles
    /\ toggles[i].pc = "reload"
    /\ toggles' = [toggles EXCEPT ![i].pc = "apply", ![i].resp = <<store>>]
    /\ served' = [served EXCEPT ![toggles[i].client] = TRUE]
    /\ UNCHANGED <<store, supabase, beers, filteredBeers, beerAvailability,
                   localStorage, clock, hidden, initPc, initResp, viewVars, input, output>>

\* a failed reload that leaves the toggle waiting for an answer that never
\* comes
toggleReloadFailsHangs(i) ==
    /\ i \in DOMAIN toggles
    /\ toggles[i].pc = "reload"
    /\ toggles' = [toggles EXCEPT ![i].pc = "waiting", ![i].reload = "failed"]
    /\ UNCHANGED <<clock, store, supabase, beers, filteredBeers, beerAvailability,
                   localStorage, hidden, initPc, initResp, served, viewVars, input,
                   output>>

\* the bulk select of the reload returns an error or throws: the cache is
\* kept, and the toggle renders and returns
toggleReloadFails(i) ==
    /\ i \in DOMAIN toggles
    /\ toggles[i].pc = "reload"
    /\ toggles' = [toggles EXCEPT ![i] = Returned([@ EXCEPT !.reload = "failed"])]
    /\ tableBody' = [tableBody EXCEPT ![toggles[i].client] =
          renderTable(filteredBeers[toggles[i].client],
                      beerAvailability[toggles[i].client])]
    /\ UNCHANGED <<clock, store, supabase, beers, filteredBeers, beerAvailability,
                   localStorage, hidden, initPc, initResp, served, currentSort,
                   elements, last, input, output>>

\* the response of the bulk select reaches the toggle: clear, set every row,
\* render and return
toggleReloadReturns(i) ==
    /\ i \in DOMAIN toggles
    /\ toggles[i].pc = "apply"
    /\ \E data \in SelectAll(toggles[i].resp[1]) :
          beerAvailability' = [beerAvailability EXCEPT
              ![toggles[i].client] = Reloaded(@, data)]
    /\ toggles' = [toggles EXCEPT ![i] = Returned([@ EXCEPT !.reload = "ok"])]
    /\ tableBody' = [tableBody EXCEPT ![toggles[i].client] =
          renderTable(filteredBeers[toggles[i].client],
                      beerAvailability'[toggles[i].client])]
    /\ UNCHANGED <<clock, store, supabase, beers, filteredBeers, localStorage, hidden,
                   initPc, initResp, served, currentSort, elements, last, input,
                   output>>

AllBeers == {beerData(FestivalPage)[i] : i \in DOMAIN beerData(FestivalPage)}

Next ==
    \/ \E c \in Clients : loadFreshBeerDataOk(c)
    \/ \E c \in Clients : loadFreshBeerDataFails(c)
    \/ \E c \in Clients : initLoadServed(c)
    \/ \E c \in Clients : initLoadFails(c)
    \/ \E c \in Clients : initLoadReturns(c)
    \/ \E c \in Clients, beer \in AllBeers : toggleBeerAvailability(c, beer)
    \/ \E i \in 1..MaxToggles : togglePointReadReturns(i)
    \/ \E i \in 1..MaxToggles : togglePointReadFails(i)
    \/ \E i \in 1..MaxToggles : toggleWriteOk(i)
    \/ \E i \in 1..MaxToggles : toggleWriteError(i)
    \/ \E i \in 1..MaxToggles : toggleWriteThrows(i)
    \/ \E i \in 1..MaxToggles : toggleReloadServed(i)
    \/ \E i \in 1..MaxToggles : toggleReloadFails(i)
    \/ \E i \in 1..MaxToggles : toggleReloadReturns(i)

Spec == Init /\ [][Next]_vars

(***************************************************************************)
(* One browser running its toggles one after another: a toggle is started  *)
(* only when every earlier one has returned.                               *)
(***************************************************************************)
AllReturned == \A i \in DOMAIN toggles : toggles[i].pc = "done"

NextSeq ==
    \/ \E c \in Clients : loadFreshBeerDataOk(c)
    \/ \E c \in Clients : loadFreshBeerDataFails(c)
    \/ \E c \in Clients : initLoadServed(c)
    \/ \E c \in Clients : initLoadFails(c)
    \/ \E c \in Clients : initLoadReturns(c)
    \/ \E c \in Clients, beer \in AllBeers :
          AllReturned /\ toggleBeerAvailability(c, beer)
    \/ \E i \in 1..MaxToggles : togglePointReadReturns(i)
    \/ \E i \in 1..MaxToggles : togglePointReadFails(i)
    \/ \E i \in 1..MaxToggles : toggleWriteOk(i)
    \/ \E i \in 1..MaxToggles : toggleWriteError(i)
    \/ \E i \in 1..MaxToggles : toggleWriteThrows(i)
    \/ \E i \in 1..MaxToggles : toggleReloadServed(i)
    \/ \E i \in 1..MaxToggles : toggleReloadFails(i)
    \/ \E i \in 1..MaxToggles : toggleReloadReturns(i)

SpecSeq == Init /\ [][NextSeq]_vars

(***************************************************************************)
(* The same browser with a backend that answers: every call a toggle has   *)
(* issued returns or fails, and the continuation of the toggle then runs.  *)
(***************************************************************************)
\* the point read of toggle i returns or fails
PointReadSettles(i) == togglePointReadReturns(i) \/ togglePointReadFails(i)

\* the write of toggle i returns, returns an error, or throws
WriteSettles(i) == toggleWriteOk(i) \/ toggleWriteError(i) \/ toggleWriteThrows(i)

\* the bulk select of the reload of toggle i is served or fails, and a
\* served response reaches the toggle
ReloadSettles(i) ==
    toggleReloadServed(i) \/ toggleReloadFails(i) \/ toggleReloadReturns(i)

StoreCallsSettle ==
    \A i \in 1..MaxToggles :
        /\ WF_vars(PointReadSettles(i))
        /\ WF_vars(WriteSettles(i))
        /\ WF_vars(ReloadSettles(i))

SpecLive == Init /\ [][NextSeq]_vars /\ StoreCallsSettle

(***************************************************************************)
(* Two browsers with the page open, sharing the remote table.              *)
(***************************************************************************)
InitTwo ==
    /\ \E rows \in {{}, {SeedRow}} : Constructed({"c1", "c2"}, rows)
    /\ NoCall
    /\ \A c \in Clients : supabase[c]

\* the second browser opens the page once the first has finished init()
MayInit(c) == c = "c2" => initPc["c1"] = "ready"

AllReady == \A c \in Clients : initPc[c] = "ready"

\* the backend answers every call and rejects only an insert of a present
\* key; the users toggle once both pages are loaded
NextTwo ==
    \/ \E c \in Clients : MayInit(c) /\ loadFreshBeerDataOk(c)
    \/ \E c \in Clients : initLoadServed(c)
    \/ \E c \in Clients : initLoadReturns(c)
    \/ \E c \in Clients, beer \in AllBeers :
          AllReady /\ toggleBeerAvailability(c, beer)
    \/ \E i \in 1..MaxToggles : togglePointReadReturns(i)
    \/ \E i \in 1..MaxToggles : toggleWriteOk(i)
    \/ \E i \in 1..MaxToggles :
          /\ i \in DOMAIN toggles
          /\ toggles[i].pc = "write"
          /\ Rejected(store, toggles[i].request[1])
          /\ toggleWriteError(i)
    \/ \E i \in 1..MaxToggles : toggleReloadServed(i)
    \/ \E i \in 1..MaxToggles : toggleReloadReturns(i)

SpecTwo == InitTwo /\ [][NextTwo]_vars

(***************************************************************************)
(* filterBeers() and sortTable(column), and the input events that run      *)
(* them.                                                                   *)
(***************************************************************************)
\* !selectedStyle || category.toLowerCase().includes(...) ||
\* beer.style.toLowerCase().includes(...), for a beer that has a category
StyleMatches(beer, selectedStyle) ==
    \/ selectedStyle = <<>>
    \/ includes(toLowerCase(extractCleanBeerStyle(beer.style)[1]),
                toLowerCase(selectedStyle))
    \/ includes(toLowerCase(beer.style), toLowerCase(selectedStyle))

\* null.toLowerCase(): the callback throws on the first beer without a
\* category when a style is selected
FilterThrows(bs, el) ==
    /\ el.styleFilter # <<>>
    /\ \E i \in DOMAIN bs : extractCleanBeerStyle(bs[i].style) = <<>>

\* the callback of this.beers.filter
Passes(c, beer, el) ==
    LET searchTerm == toLowerCase(el.searchInput)
        matchesSearch ==
            \/ searchTerm = <<>>
            \/ includes(toLowerCase(beer.brewery), searchTerm)
            \/ includes(toLowerCase(beer.beer), searchTerm)
            \/ includes(toLowerCase(beer.style), searchTerm)
            \/ includes(toLowerCase(beer.location), searchTerm)
        matchesBar == el.barFilter = <<>> \/ beer.bar = el.barFilter
        matchesStyle == StyleMatches(beer, el.styleFilter)
        isAvailable == getBeerAvailability(c, beer)
        matchesAvailability ==
            \/ el.availabilityFilter = ""
            \/ el.availabilityFilter = "available" /\ isAvailable
            \/ el.availabilityFilter = "unavailable" /\ ~isAvailable
        matchesABV == beer.abv >= el.abvMin /\ beer.abv <= el.abvMax
    IN  matchesSearch /\ matchesBar /\ matchesStyle /\ matchesAvailability
        /\ matchesABV

\* a filter that takes the first beer for a header and skips it
FilteredSkippingFirst(c, bs, el) ==
    LET Test(beer) == Passes(c, beer, el)
    IN  SelectSeq(IF bs = <<>> THEN bs ELSE Tail(bs), Test)

\* this.beers.filter(...)
Filtered(c, bs, el) ==
    LET Test(beer) == Passes(c, beer, el) IN SelectSeq(bs, Test)

\* an input or change event has left the inputs as el: filterBeers() runs,
\* and either replaces the displayed beers and renders, or throws
filterBeers(c, el) ==
    /\ initPc[c] = "ready"
    /\ elements' = [elements EXCEPT ![c] = el]
    /\ IF FilterThrows(beers[c], el)
       THEN /\ filteredBeers' = filteredBeers
            /\ tableBody' = tableBody
            /\ last' = [last EXCEPT ![c] = [op |-> "filter", threw |-> TRUE]]
       ELSE /\ filteredBeers' = [filteredBeers EXCEPT ![c] = Filtered(c, beers[c], el)]
            /\ tableBody' = [tableBody EXCEPT ![c] =
                  renderTable(filteredBeers'[c], beerAvailability[c])]
            /\ last' = [last EXCEPT ![c] = [op |-> "filter", threw |-> FALSE]]
    /\ UNCHANGED <<store, supabase, beers, beerAvailability, localStorage, clock,
                   hidden, initPc, initResp, toggles, served, currentSort, input,
                   output>>

\* what the user may type into the search box
SearchTerms == {<<>>, <<"A", "B">>, <<"f", "r", "u">>}

\* the values of an option list
Options(opts) == {<<>>} \cup {opts[i] : i \in DOMAIN opts}

\* the whole percents a slider can be put on
SliderStops(el) == {x \in el.abvLow..el.abvHigh : x = Floor(x)}

searchInputEvent(c) ==
    \E v \in SearchTerms : filterBeers(c, [elements[c] EXCEPT !.searchInput = v])

barFilterEvent(c) ==
    \E v \in Options(elements[c].barOptions) :
        filterBeers(c, [elements[c] EXCEPT !.barFilter = v])

styleFilterEvent(c) ==
    \E v \in Options(elements[c].styleOptions) :
        filterBeers(c, [elements[c] EXCEPT !.styleFilter = v])

availabilityFilterEvent(c) ==
    \E v \in {"", "available", "unavailable"} :
        filterBeers(c, [elements[c] EXCEPT !.availabilityFilter = v])

abvMinEvent(c) ==
    \E v \in SliderStops(elements[c]) :
        filterBeers(c, [elements[c] EXCEPT !.abvMin = v])

abvMaxEvent(c) ==
    \E v \in SliderStops(elements[c]) :
        filterBeers(c, [elements[c] EXCEPT !.abvMax = v])

\* the columns of the table header
Columns == {"brewery", "beer", "style", "abv", "location", "bar", "last_seen"}

\* a[column]
ColumnValue(beer, column) ==
    CASE column = "brewery" -> beer.brewery
      [] column = "beer" -> beer.beer
      [] column = "style" -> beer.style
      [] column = "location" -> beer.location
      [] column = "bar" -> beer.bar

\* new Date(updated_at).getTime(): positive for every stored time, and in
\* the order of the stored times
getTime(updated_at) == updated_at + 1

\* the stored time of every beer that has an entry, available or not
LastSeenOfAny(c, beer) ==
    LET info == getBeerAvailabilityInfo(c, beer)
    IN  IF info # <<>> THEN getTime(info[1].updated_at) ELSE 0

\* the stored time of a beer marked available, 0 for any other beer
LastSeen(c, beer) ==
    LET info == getBeerAvailabilityInfo(c, beer)
    IN  IF info # <<>> /\ info[1].is_available THEN getTime(info[1].updated_at) ELSE 0

\* a comparison of the strings as they are, without lower-casing them
ValueLessCaseSensitive(c, column, a, b) ==
    CASE column = "abv" -> a.abv < b.abv
      [] column = "last_seen" -> LastSeen(c, a) < LastSeen(c, b)
      [] OTHER -> StrLess(ColumnValue(a, column), ColumnValue(b, column))

\* aVal < bVal for the values the comparator derives from two beers
ValueLess(c, column, a, b) ==
    CASE column = "abv" -> a.abv < b.abv
      [] column = "last_seen" -> LastSeen(c, a) < LastSeen(c, b)
      [] OTHER -> StrLess(toLowerCase(ColumnValue(a, column)),
                          toLowerCase(ColumnValue(b, column)))

\* a comparator that ignores the direction
CompareAscending(c, column, direction, a, b) ==
    IF ValueLess(c, column, a, b) THEN 0 - 1
    ELSE IF ValueLess(c, column, b, a) THEN 1
    ELSE 0

\* the comparator handed to Array.prototype.sort
Compare(c, column, direction, a, b) ==
    LET result == IF ValueLess(c, column, a, b) THEN 0 - 1
                  ELSE IF ValueLess(c, column, b, a) THEN 1
                  ELSE 0
    IN  IF direction = "desc" THEN 0 - result ELSE result

\* Array.prototype.sort, which is stable: a beer goes behind the beers
\* before it that do not compare greater
RECURSIVE SortedBy(_, _, _, _)
SortedBy(c, column, direction, seq) ==
    IF seq = <<>> THEN <<>>
    ELSE LET front == SortedBy(c, column, direction, SubSeq(seq, 1, Len(seq) - 1))
             x == seq[Len(seq)]
             k == Cardinality({i \in DOMAIN front :
                                  Compare(c, column, direction, front[i], x) <= 0})
         IN  SubSeq(front, 1, k) \o <<x>> \o SubSeq(front, k + 1, Len(front))

\* a click that always sorts ascending
ToggledAscending(sort, column) == [column |-> column, direction |-> "asc"]

\* the first lines of sortTable: flip the direction of the active column,
\* or make the column active, ascending
Toggled(sort, column) ==
    IF sort.column = column
    THEN [sort EXCEPT !.direction = IF @ = "asc" THEN "desc" ELSE "asc"]
    ELSE [column |-> column, direction |-> "asc"]

\* a sortTable(column) that sorts the array of this.beers itself
sortTableInPlace(c, column) ==
    /\ initPc[c] = "ready"
    /\ currentSort' = [currentSort EXCEPT ![c] = Toggled(@, column)]
    /\ filteredBeers' = [filteredBeers EXCEPT ![c] =
          SortedBy(c, column, Toggled(currentSort[c], column).direction, @)]
    /\ beers' = [beers EXCEPT ![c] =
          SortedBy(c, column, Toggled(currentSort[c], column).direction, @)]
    /\ tableBody' = [tableBody EXCEPT ![c] =
          renderTable(filteredBeers'[c], beerAvailability[c])]
    /\ last' = [last EXCEPT ![c] = [op |-> "sort", threw |-> FALSE]]
    /\ UNCHANGED <<store, supabase, beerAvailability, localStorage, clock,
                   hidden, initPc, initResp, toggles, served, elements, input,
                   output>>

\* a click on a column header: sortTable(column)
sortTable(c, column) ==
    /\ initPc[c] = "ready"
    /\ currentSort' = [currentSort EXCEPT ![c] = Toggled(@, column)]
    /\ filteredBeers' = [filteredBeers EXCEPT ![c] =
          SortedBy(c, column, Toggled(currentSort[c], column).direction, @)]
    /\ tableBody' = [tableBody EXCEPT ![c] =
          renderTable(filteredBeers'[c], beerAvailability[c])]
    /\ last' = [last EXCEPT ![c] = [op |-> "sort", threw |-> FALSE]]
    /\ UNCHANGED <<store, supabase, beers, beerAvailability, localStorage, clock,
                   hidden, initPc, initResp, toggles, served, elements, input,
                   output>>

(***************************************************************************)
(* One browser loading a page and then filtering and sorting it.           *)
(***************************************************************************)
\* every style has a category
ClassifiedPage ==
    << HeaderRow,
       << <<"A", "b">>, <<"x">>, <<"I", "n", "d", "i", "a", " ", "P", "a", "l", "e", " ", "A", "l", "e">>, <<"4">>, <<"N">>, <<"w">> >>,
       << <<"a", "b">>, <<"Y">>, <<"B", "e", "s", "t", " ", "B", "i", "t", "t", "e", "r">>, <<"6", "%">>, <<"n">>, <<"W">> >>,
       << <<"c">>, <<"z">>, <<"P", "a", "l", "e", " ", "A", "l", "e">>, <<"5", ".", "0">>, <<"m">>, <<"w">> >> >>

\* the first beer has no category, the second no ABV
MixedPage ==
    << << <<"d">>, <<"k">>, <<"F", "r", "u", "i", "t">>, <<"5">>, <<"n">>, <<"v">> >>,
       << <<"e">>, <<"l">>, <<"S", "t", "o", "u", "t">>, <<"N", "/", "A">>, <<"n">>, <<"v">> >> >>

ViewPages == {ClassifiedPage, MixedPage}

\* the rows other sessions have left in the table
ViewRows ==
    {[brewery |-> <<"A", "b">>, beer_name |-> <<"x">>, is_available |-> TRUE,
      updated_by |-> "User_q", updated_at |-> 0],
     [brewery |-> <<"c">>, beer_name |-> <<"z">>, is_available |-> FALSE,
      updated_by |-> "User_q", updated_at |-> 0]}

InitView ==
    /\ \E rows \in {{}, ViewRows} : Constructed({"c1"}, rows)
    /\ supabase["c1"]
    /\ NoCall

\* the user filters at will and sorts by ABV
NextView ==
    \/ \E c \in Clients, page \in ViewPages : loadedPage(c, page)
    \/ \E c \in Clients : loadFreshBeerDataFails(c)
    \/ \E c \in Clients : initLoadServed(c)
    \/ \E c \in Clients : initLoadReturns(c)
    \/ \E c \in Clients : searchInputEvent(c)
    \/ \E c \in Clients : barFilterEvent(c)
    \/ \E c \in Clients : styleFilterEvent(c)
    \/ \E c \in Clients : availabilityFilterEvent(c)
    \/ \E c \in Clients : abvMinEvent(c)
    \/ \E c \in Clients : abvMaxEvent(c)
    \/ \E c \in Clients : sortTable(c, "abv")

SpecView == InitView /\ [][NextView]_vars

\* the user sorts at will and filters by availability
NextSort ==
    \/ \E c \in Clients, page \in ViewPages : loadedPage(c, page)
    \/ \E c \in Clients : initLoadServed(c)
    \/ \E c \in Clients : initLoadReturns(c)
    \/ \E c \in Clients : availabilityFilterEvent(c)
    \/ \E c \in Clients, column \in Columns : sortTable(c, column)

\* rows with different times: two beers marked available at different
\* times, and a beer marked unavailable after both
RecentRows ==
    {[brewery |-> <<"A", "b">>, beer_name |-> <<"x">>, is_available |-> TRUE,
      updated_by |-> "User_q", updated_at |-> 0],
     [brewery |-> <<"a", "b">>, beer_name |-> <<"Y">>, is_available |-> TRUE,
      updated_by |-> "User_q", updated_at |-> 2],
     [brewery |-> <<"c">>, beer_name |-> <<"z">>, is_available |-> FALSE,
      updated_by |-> "User_q", updated_at |-> 5]}

InitSort ==
    /\ \E rows \in {{}, ViewRows, RecentRows} : Constructed({"c1"}, rows)
    /\ supabase["c1"]
    /\ NoCall

SpecSort == InitSort /\ [][NextSort]_vars

(***************************************************************************)
(* One browser loading a page of one or two beers with various ABVs, and   *)
(* its user then searching and filtering by availability.                  *)
(***************************************************************************)
AbvCells == {<<"0", ".", "5">>, <<"4", ".", "5", "%">>, <<"N", "/", "A">>, <<"6">>}

FirstBeerRow(abvText) == << <<"a">>, <<"b">>, <<"i", "p", "a">>, abvText, <<"t">>, <<"x">> >>

SecondBeerRow(abvText) == << <<"c">>, <<"d">>, <<"m", "i", "l", "d">>, abvText, <<"t">>, <<"y">> >>

DefaultPages ==
    {<<HeaderRow, FirstBeerRow(abv)>> : abv \in AbvCells}
    \cup {<<HeaderRow, FirstBeerRow(abv1), SecondBeerRow(abv2)>> :
             abv1 \in AbvCells, abv2 \in AbvCells}

NextDefault ==
    \/ \E c \in Clients, page \in DefaultPages : loadedPage(c, page)
    \/ \E c \in Clients : initLoadServed(c)
    \/ \E c \in Clients : initLoadReturns(c)
    \/ \E c \in Clients : searchInputEvent(c)
    \/ \E c \in Clients : availabilityFilterEvent(c)

SpecDefault == InitView /\ [][NextDefault]_vars

(***************************************************************************)
(* One browser whose user filters by availability, sorts by ABV and by     *)
(* last seen, and toggles beers one after another, against a table that    *)
(* may fail any call.                                                      *)
(***************************************************************************)
InitApp ==
    /\ \E rows \in {{}, {SeedRow}} : Constructed({"c1"}, rows)
    /\ supabase["c1"]
    /\ NoCall

AppColumns == {"abv", "last_seen"}

NextApp ==
    \/ \E c \in Clients : loadFreshBeerDataOk(c)
    \/ \E c \in Clients : initLoadServed(c)
    \/ \E c \in Clients : initLoadFails(c)
    \/ \E c \in Clients : initLoadReturns(c)
    \/ \E c \in Clients : availabilityFilterEvent(c)
    \/ \E c \in Clients, column \in AppColumns : sortTable(c, column)
    \/ \E c \in Clients, beer \in AllBeers :
          AllReturned /\ toggleBeerAvailability(c, beer)
    \/ \E i \in 1..MaxToggles : togglePointReadReturns(i)
    \/ \E i \in 1..MaxToggles : togglePointReadFails(i)
    \/ \E i \in 1..MaxToggles : toggleWriteOk(i)
    \/ \E i \in 1..MaxToggles : toggleWriteError(i)
    \/ \E i \in 1..MaxToggles : toggleWriteThrows(i)
    \/ \E i \in 1..MaxToggles : toggleReloadServed(i)
    \/ \E i \in 1..MaxToggles : toggleReloadFails(i)
    \/ \E i \in 1..MaxToggles : toggleReloadReturns(i)

SpecApp == InitApp /\ [][NextApp]_vars

(***************************************************************************)
(* parseHtmlData applied on its own to a document of at most MaxRows rows. *)
(***************************************************************************)
\* a row of th cells has no td cell
NoCells == <<>>

PaddedHeaderRow ==
    <<<<" ">> \o BreweryLiteral \o <<" ">>, <<"B", "e", "e", "r">>, <<"S">>,
      <<"A">>, <<"L">>, <<"B">>>>

SevenCells ==
    << <<"e">>, <<"f", " ", "g">>, <<"\t", "s">>, <<"5">>, <<"t">>, <<"z">>,
       <<"n">> >>

FiveCells == << <<"a">>, <<"b">>, <<"s">>, <<"4">>, <<"t">> >>

BlankBrewery == << <<" ", "\t">>, <<"b">>, <<"s">>, <<"4">>, <<"t">>, <<"x">> >>

BlankBeer == << <<"a">>, <<>>, <<"s">>, <<"4">>, <<"t">>, <<"x">> >>

\* the header word as the name of a beer
HeaderAsBeer == << <<"h">>, BreweryLiteral, <<"s">>, <<"4">>, <<"t">>, <<"x">> >>

DocRows ==
    {NoCells, HeaderRow, PaddedHeaderRow, FestivalPage[2], FestivalPage[3],
     SevenCells, FiveCells, BlankBrewery, BlankBeer, HeaderAsBeer}

Docs == UNION {[1..n -> DocRows] : n \in 0..MaxRows}

InitExtract == Constructed({}, {}) /\ input \in Docs /\ output = <<>>

\* parseHtmlData(html): the beers, or the throw on an empty result
parseHtmlData ==
    /\ output = <<>>
    /\ output' = <<IF ParseThrows(input)
                   THEN [status |-> "throws", beers |-> <<>>]
                   ELSE [status |-> "ok", beers |-> beerData(input)]>>
    /\ UNCHANGED <<appVars, input>>

NextExtract == parseHtmlData

SpecExtract == InitExtract /\ [][NextExtract]_vars

(***************************************************************************)
(* The clear-and-set of loadBeerAvailability applied on its own to a Map   *)
(* and a response of at most MaxRows rows.  The rows of a response have    *)
(* distinct (brewery, beer_name); two of the keys below join to the same   *)
(* Map key.                                                                *)
(***************************************************************************)
LoadKeys ==
    {<<<<"a">>, <<"b", "|", "c">>>>, <<<<"a", "|", "b">>, <<"c">>>>,
     <<<<"a">>, <<"b">>>>, <<<<"c">>, <<"d">>>>}

LoadRows ==
    {[brewery |-> k[1], beer_name |-> k[2], is_available |-> v,
      updated_by |-> "User_p", updated_at |-> 0] : k \in LoadKeys, v \in BOOLEAN}

Responses ==
    UNION {SelectAll(rows) :
             rows \in {rs \in SUBSET LoadRows :
                         /\ Cardinality(rs) <= MaxRows
                         /\ \A r1, r2 \in rs :
                               r1.brewery = r2.brewery /\ r1.beer_name = r2.beer_name
                                   => r1 = r2}}

\* the Maps an earlier load of at most one row leaves behind
LoadedMaps == {Reloaded(EmptyMap, data) : data \in {d \in Responses : Len(d) <= 1}}

InitLoad ==
    /\ Constructed({}, {})
    /\ input \in [map : LoadedMaps, data : Responses]
    /\ output = <<>>

\* this.beerAvailability.clear(); data.forEach(...)
clearAndSet ==
    /\ output = <<>>
    /\ output' = <<Reloaded(input.map, input.data)>>
    /\ UNCHANGED <<appVars, input>>

NextLoad == clearAndSet

SpecLoad == InitLoad /\ [][NextLoad]_vars

(***************************************************************************)
(* Properties of the availability toggle.                                  *)
(***************************************************************************)
\* the toggles that have got past their point read
PastRead == {i \in DOMAIN toggles : toggles[i].request # <<>>}

\* the availability the point read of toggle i found in the table: that of
\* the row it returned, false when it returned none
ReadAvailable(i) == \E r \in toggles[i].data : r.is_available

\* C1: the value a toggle asks the table to write is the negation of the
\* value its own point read returned (false when it returned no row),
\* whatever the cache of the client holds for the beer
ToggleWritesNegationOfRead ==
    \A i \in PastRead :
        toggles[i].request[1].is_available = ~ReadAvailable(i)

\* a toggle is about to write, having read a row whose availability is not
\* the one the cache shows
ToggleReadDisagreesWithCache ==
    \E i \in PastRead :
        /\ toggles[i].pc = "write"
        /\ toggles[i].data # {}
        /\ ReadAvailable(i) # getBeerAvailability(toggles[i].client, toggles[i].beer)
        /\ toggles[i].request[1].is_available
              = getBeerAvailability(toggles[i].client, toggles[i].beer)

\* C2: no two toggles of one client on one record are both between their
\* point read and the return of their write
NoInterleavedToggles ==
    \A i, j \in DOMAIN toggles :
        /\ i # j
        /\ toggles[i].client = toggles[j].client
        /\ toggles[i].beer = toggles[j].beer
        => ~(toggles[i].pc \in {"read", "write"} /\ toggles[j].pc \in {"read", "write"})

\* C3: a toggle whose write fails (an error result, or a throw) tells the
\* user, leaves the cache as it was and issues no further write
WriteFailureReported ==
    [][\A i \in DOMAIN toggles :
          toggles[i].pc = "write" /\ toggles'[i].pc = "done"
          => /\ toggles'[i].alert # ""
             /\ beerAvailability' = beerAvailability
             /\ toggles'[i].calls = toggles[i].calls]_vars

\* every call a client has made to the table has returned
ClientQuiet(c) ==
    /\ initPc[c] = "ready"
    /\ \A j \in DOMAIN toggles : toggles[j].client = c => toggles[j].pc = "done"

\* what a cache that mirrors the rows would hold for the beer
EntryIn(rows, beer) ==
    LET match == Matching(rows, beer.brewery, beer.beer)
    IN  IF match = {} THEN <<>> ELSE <<InfoOf(CHOOSE r \in match : TRUE)>>

\* C4 as stated: once a toggle has written and the client is quiet, the
\* cache entry of the record equals the row the table holds
CacheEqualsStoreAfterToggle ==
    \A i \in DOMAIN toggles :
        /\ toggles[i].pc = "done"
        /\ toggles[i].write = "ok"
        /\ ClientQuiet(toggles[i].client)
        => getBeerAvailabilityInfo(toggles[i].client, toggles[i].beer)
             = EntryIn(store, toggles[i].beer)

\* C4: when the bulk reload of a toggle returns rows, the cache entry of the
\* toggled record becomes the row of that response (none when the response
\* has no such row); when the reload fails the cache stays as it was
CacheRefreshedByReload ==
    [][\A i \in DOMAIN toggles :
          /\ toggles[i].pc = "apply" /\ toggles'[i].pc = "done"
             => getBeerAvailabilityInfo(toggles[i].client, toggles[i].beer)'
                  = EntryIn(toggles[i].resp[1], toggles[i].beer)
          /\ toggles[i].pc = "reload" /\ toggles'[i].pc = "done"
             => beerAvailability' = beerAvailability]_vars

\* a toggle has written and reloaded, and the cache shows the row of the table
CacheShowsWrittenRow ==
    \E i \in DOMAIN toggles :
        /\ toggles[i].pc = "done"
        /\ toggles[i].write = "ok"
        /\ toggles[i].reload = "ok"
        /\ EntryIn(store, toggles[i].beer) # <<>>
        /\ getBeerAvailabilityInfo(toggles[i].client, toggles[i].beer)
             = EntryIn(store, toggles[i].beer)
        /\ EntryIn(store, toggles[i].beer)[1].updated_at
             = toggles[i].request[1].updated_at

\* the request of toggle i is what the row r holds
Holds(r, i) ==
    /\ r.is_available = toggles[i].request[1].is_available
    /\ r.updated_by = toggles[i].request[1].updated_by
    /\ r.updated_at = toggles[i].request[1].updated_at

\* the write of toggle i is the last the table has applied for its record
LastApplied(i) ==
    /\ toggles[i].order > 0
    /\ \A j \in DOMAIN toggles :
          toggles[j].beer = toggles[i].beer => toggles[j].order <= toggles[i].order

LastWriteWins ==
    /\ \A i \in PastRead :
          toggles[i].request[1].is_available = ~ReadAvailable(i)
    /\ \A i \in DOMAIN toggles :
          LastApplied(i)
          => \E r \in Matching(store, toggles[i].beer.brewery, toggles[i].beer.beer) :
                Holds(r, i)

\* two clients have read the same row of a record and both have written
\* the same availability to it
BothWroteTheSameValue ==
    \E i, j \in DOMAIN toggles :
        /\ toggles[i].client # toggles[j].client
        /\ toggles[i].beer = toggles[j].beer
        /\ toggles[i].write = "ok" /\ toggles[j].write = "ok"
        /\ toggles[i].data # {} /\ toggles[i].data = toggles[j].data
        /\ toggles[i].request[1].is_available = toggles[j].request[1].is_available
        /\ LastApplied(j)

JoinedKey(r) == r.brewery \o <<"|">> \o r.beer_name

\* C7 as stated: after a load the cache has exactly one entry per row of
\* the response, with the fields of that row, and no other entry
OneEntryPerRow ==
    output # <<>>
    => /\ Cardinality(DOMAIN output[1]) = Len(input.data)
       /\ \A j \in DOMAIN input.data :
             /\ JoinedKey(input.data[j]) \in DOMAIN output[1]
             /\ output[1][JoinedKey(input.data[j])] = InfoOf(input.data[j])
       /\ \A k \in DOMAIN output[1] :
             \E j \in DOMAIN input.data : k = JoinedKey(input.data[j])

\* C7: after a load the cache has exactly one entry per joined key
\* brewery|beer_name of the rows of the response, holding the fields of the
\* last row of the response with that joined key, and no entry for a joined
\* key that is absent from the response
OneEntryPerJoinedKey ==
    output # <<>>
    => /\ DOMAIN output[1] = {JoinedKey(input.data[j]) : j \in DOMAIN input.data}
       /\ \A j \in DOMAIN input.data :
             (\A l \in DOMAIN input.data :
                 l > j => JoinedKey(input.data[l]) # JoinedKey(input.data[j]))
             => output[1][JoinedKey(input.data[j])] = InfoOf(input.data[j])

\* a load of two rows with different joined keys has dropped the entry of
\* a key that is absent from the response
StaleEntryDropped ==
    /\ output # <<>>
    /\ Len(input.data) = 2
    /\ Cardinality(DOMAIN output[1]) = 2
    /\ \E k \in DOMAIN input.map : k \notin DOMAIN output[1]

(***************************************************************************)
(* Properties of the degraded mode.                                        *)
(***************************************************************************)
\* C9: while a client has no backend object, or the table has served none
\* of its calls, each of its toggles that has returned has told the user,
\* the table and the cache are empty, every lookup gives false, and the
\* listing that was loaded is shown
InertWithoutBackend ==
    \A c \in Clients :
        ~supabase[c] \/ ~served[c]
        => /\ \A i \in DOMAIN toggles :
                 toggles[i].client = c /\ toggles[i].pc = "done"
                 => toggles[i].alert # ""
           /\ store = {}
           /\ beerAvailability[c] = EmptyMap
           /\ \A beer \in AllBeers : ~getBeerAvailability(c, beer)
           /\ beers[c] # <<>> => ~hidden[c].table

(***************************************************************************)
(* Properties of the extraction.                                           *)
(***************************************************************************)
\* the text without its leading and trailing white space
Stripped(s) ==
    LET inked == {i \in DOMAIN s : s[i] \notin WhiteSpace}
    IN  IF inked = {} THEN <<>>
        ELSE SubSeq(s, CHOOSE i \in inked : \A j \in inked : i <= j,
                       CHOOSE i \in inked : \A j \in inked : i >= j)

Qualifies(cells) ==
    /\ Len(cells) >= 6
    /\ Stripped(cells[1]) # <<>>
    /\ Stripped(cells[2]) # <<>>
    /\ Stripped(cells[1]) # <<"B", "r", "e", "w", "e", "r", "y">>

Qualifying(rows) == {j \in DOMAIN rows : Qualifies(rows[j])}

\* the row the k-th record is made from
NthQualifying(rows, k) ==
    CHOOSE j \in Qualifying(rows) :
        Cardinality({q \in Qualifying(rows) : q < j}) = k - 1

\* C10: for a document with a qualifying row, the extraction succeeds with
\* one record per qualifying row and no other, in the order of the rows,
\* each made of the stripped cells 0 to 5 of its row
ExtractionYieldsQualifyingRows ==
    output # <<>> /\ Qualifying(input) # {}
    => /\ output[1].status = "ok"
       /\ Len(output[1].beers) = Cardinality(Qualifying(input))
       /\ \A k \in DOMAIN output[1].beers :
             LET cells == input[NthQualifying(input, k)]
                 b == output[1].beers[k]
             IN  /\ b.brewery = Stripped(cells[1])
                 /\ b.beer = Stripped(cells[2])
                 /\ b.style = Stripped(cells[3])
                 /\ b.abv = parseABV(Stripped(cells[4]))
                 /\ b.location = Stripped(cells[5])
                 /\ b.bar = Stripped(cells[6])

\* a document whose first row is skipped and whose second has exactly 6
\* cells has given one record
SkippedThenExtracted ==
    /\ output # <<>>
    /\ Len(input) = 2
    /\ ~Qualifies(input[1])
    /\ Len(input[2]) = 6
    /\ Len(output[1].beers) = 1

(***************************************************************************)
(* Properties of the page load.                                            *)
(***************************************************************************)
\* C11: once the load of the page has failed (the fetch failed, or no row
\* qualified) the error is shown, the loading line and the table are
\* hidden and the beers and the displayed beers are empty, whatever the
\* user does next; and the fetch is issued once: init() never returns to it
LoadFailureShowsError ==
    /\ [](\A c \in Clients :
            initPc[c] # "fetch" /\ beers[c] = <<>>
            => /\ filteredBeers[c] = <<>>
               /\ hidden[c].loading
               /\ ~hidden[c].error
               /\ hidden[c].table)
    /\ [][\A c \in Clients : initPc[c] # "fetch" => initPc'[c] # "fetch"]_vars

\* the load has failed and the user has run a filter pass since
FilteredAfterFailedLoad ==
    \E c \in Clients :
        /\ initPc[c] = "ready"
        /\ beers[c] = <<>>
        /\ ~hidden[c].error
        /\ last[c].op = "filter"

(***************************************************************************)
(* Properties of the filter.                                               *)
(***************************************************************************)
\* the text sub occurs in the text s, letter case aside
ContainsAnyCase(s, sub) == includes(toLowerCase(s), toLowerCase(sub))

\* the style condition for a selected style: a beer without a category
\* passes on its raw style, a beer with one on its category or raw style
StyleCondition(beer, selectedStyle) ==
    LET category == extractCleanBeerStyle(beer.style)
    IN  \/ ContainsAnyCase(beer.style, selectedStyle)
        \/ category # <<>> /\ ContainsAnyCase(category[1], selectedStyle)

\* the beers a filter pass is to keep
Keeps(c, beer, el) ==
    /\ \/ el.searchInput = <<>>
       \/ \E field \in {beer.brewery, beer.beer, beer.style, beer.location} :
             ContainsAnyCase(field, el.searchInput)
    /\ el.barFilter = <<>> \/ el.barFilter = beer.bar
    /\ el.styleFilter = <<>> \/ StyleCondition(beer, el.styleFilter)
    /\ \/ el.availabilityFilter = ""
       \/ (el.availabilityFilter = "available") = getBeerAvailability(c, beer)
    /\ el.abvMin <= beer.abv /\ beer.abv <= el.abvMax

Displayed(c) == {filteredBeers[c][i] : i \in DOMAIN filteredBeers[c]}

\* the last handler the client has run is a filter pass
JustFiltered(c) == initPc[c] = "ready" /\ last[c].op = "filter"

\* C12: after a filter pass the displayed beers are exactly the loaded
\* beers that meet the search, bar, style, availability and ABV conditions
FilterKeepsExactlyMatching ==
    \A c \in Clients :
        JustFiltered(c)
        => \A i \in DOMAIN beers[c] :
              beers[c][i] \in Displayed(c) <=> Keeps(c, beers[c][i], elements[c])

\* C13: a filter pass with a style selected never aborts, and the beers it
\* displays are those that meet the style condition among the beers that
\* meet the other conditions
StyleFilterPassCompletes ==
    \A c \in Clients :
        JustFiltered(c) /\ elements[c].styleFilter # <<>>
        => /\ ~last[c].threw
           /\ \A i \in DOMAIN beers[c] :
                 Keeps(c, beers[c][i], [elements[c] EXCEPT !.styleFilter = <<>>])
                 => (beers[c][i] \in Displayed(c)
                       <=> StyleCondition(beers[c][i], elements[c].styleFilter))

\* seq is a subsequence of the sequence of, whose elements are distinct
IsSubsequence(seq, of) ==
    /\ \A i \in DOMAIN seq : \E k \in DOMAIN of : of[k] = seq[i]
    /\ \A i, j \in DOMAIN seq :
          i < j => \E k, l \in DOMAIN of : k < l /\ of[k] = seq[i] /\ of[l] = seq[j]

\* C14: after a filter pass the displayed beers are a subsequence of the
\* loaded beers, in the order of extraction, whatever sort came before
FilterPreservesExtractionOrder ==
    \A c \in Clients :
        JustFiltered(c) => IsSubsequence(filteredBeers[c], beers[c])

\* C15: filtering the result of a filter pass again, with the same inputs
\* and the same cache, gives that result again, and a filter pass run
\* right after a filter pass with the inputs unchanged leaves the displayed
\* beers as they are
FilterIsIdempotent ==
    /\ [](\A c \in Clients :
            ~FilterThrows(beers[c], elements[c])
            => Filtered(c, Filtered(c, beers[c], elements[c]), elements[c])
                 = Filtered(c, beers[c], elements[c]))
    /\ [][\A c \in Clients :
            /\ last[c].op = "filter"
            /\ last'[c].op = "filter"
            /\ elements'[c] = elements[c]
            => filteredBeers'[c] = filteredBeers[c]]_vars

\* a filter pass has kept some of the loaded beers and dropped others
FilteredSomeOut ==
    \E c \in Clients :
        /\ JustFiltered(c)
        /\ ~last[c].threw
        /\ filteredBeers[c] # <<>>
        /\ Len(filteredBeers[c]) < Len(beers[c])
        /\ filteredBeers[c] = Filtered(c, beers[c], elements[c])

(***************************************************************************)
(* extractCleanBeerStyle applied on its own to a raw style: at most        *)
(* MaxWords words separated by single spaces, with or without the ABV the  *)
(* festival's page appends to a style.                                     *)
(***************************************************************************)
MaxWords == 3

StyleWords ==
    {<<"I", "n", "d", "i", "a">>,
     <<"P", "a", "l", "e">>,
     <<"A", "l", "e">>,
     <<"B", "e", "s", "t">>,
     <<"B", "i", "t", "t", "e", "r">>,
     <<"G", "o", "l", "d", "e", "n">>,
     <<"U", "n", "k", "n", "o", "w", "n">>,
     <<"F", "r", "u", "i", "t">>,
     <<"T", "h", "i", "n", "g">>,
     <<"I", "P", "A">>,
     <<"M", "i", "l", "d">>}

StyleSuffixes == {<<>>, <<",", " ", "5", ".", "2", "%">>, <<",", " ", "4", ".", "2", "%">>}

RECURSIVE JoinWords(_)
JoinWords(ws) ==
    IF ws = <<>> THEN <<>>
    ELSE IF Len(ws) = 1 THEN ws[1]
    ELSE ws[1] \o <<" ">> \o JoinWords(Tail(ws))

RawStyles ==
    {JoinWords(ws) \o suffix :
        ws \in UNION {[1..n -> StyleWords] : n \in 0..MaxWords},
        suffix \in StyleSuffixes}

InitClassify == Constructed({}, {}) /\ input \in RawStyles /\ output = <<>>

\* extractCleanBeerStyle(styleText) returns
extractCleanBeerStyleReturns ==
    /\ output = <<>>
    /\ output' = <<extractCleanBeerStyle(input)>>
    /\ UNCHANGED <<appVars, input>>

NextClassify == extractCleanBeerStyleReturns

SpecClassify == InitClassify /\ [][NextClassify]_vars

(***************************************************************************)
(* Properties of the classifier.                                           *)
(***************************************************************************)
\* the rules of the table one of whose keywords occurs in the style
MatchingRules(styleText) ==
    {i \in DOMAIN coreTypes :
        \E k \in DOMAIN coreTypes[i].keywords :
            includes(toLowerCase(styleText), coreTypes[i].keywords[k])}

IndiaPaleAle52 == <<"I", "n", "d", "i", "a", " ", "P", "a", "l", "e", " ", "A", "l", "e", ",", " ", "5", ".", "2", "%">>
BestBitter == <<"B", "e", "s", "t", " ", "B", "i", "t", "t", "e", "r">>
GoldenAle42 == <<"G", "o", "l", "d", "e", "n", " ", "A", "l", "e", ",", " ", "4", ".", "2", "%">>
UnknownFruitThing == <<"U", "n", "k", "n", "o", "w", "n", " ", "F", "r", "u", "i", "t", " ", "T", "h", "i", "n", "g">>

\* C16: the classifier returns the category of the first rule of the table
\* of which a keyword occurs in the lower-cased style, and no category when
\* there is no such rule: "India Pale Ale, 5.2%" is IPA, "Best Bitter" is
\* Bitter, "Golden Ale, 4.2%" is Golden Ale, "Unknown Fruit Thing" has none
ClassifierFirstMatchWins ==
    output # <<>>
    => /\ LET matching == MatchingRules(input)
          IN  IF matching = {}
              THEN output[1] = <<>>
              ELSE output[1] = <<coreTypes[MinOf(matching)].category>>
       /\ input = IndiaPaleAle52 => output[1] = <<<<"I", "P", "A">>>>
       /\ input = BestBitter => output[1] = <<<<"B", "i", "t", "t", "e", "r">>>>
       /\ input = GoldenAle42 => output[1] = <<<<"G", "o", "l", "d", "e", "n", " ", "A", "l", "e">>>>
       /\ input = UnknownFruitThing => output[1] = <<>>

\* a style in which keywords of three rules occur has been classified
ClassifiedAmongSeveral ==
    /\ output # <<>>
    /\ input = IndiaPaleAle52
    /\ Cardinality(MatchingRules(input)) >= 3
    /\ output[1] = <<<<"I", "P", "A">>>>

(***************************************************************************)
(* Properties of the style options.                                        *)
(***************************************************************************)
Unclassified(beer) == extractCleanBeerStyle(beer.style) = <<>>

\* C17: the options of the style select are the distinct categories of the
\* loaded beers, so the style of a beer without a category is never an
\* option; such a beer stays loaded, and a filter pass with no style
\* selected keeps it when the search text occurs in its raw style and the
\* bar, availability and ABV inputs admit it
UnclassifiedNeverAnOption ==
    \A c \in Clients :
        LET opts == elements[c].styleOptions
            el == elements[c]
        IN  /\ {opts[i] : i \in DOMAIN opts}
                  = {extractCleanBeerStyle(beers[c][i].style)[1] :
                        i \in {k \in DOMAIN beers[c] : ~Unclassified(beers[c][k])}}
            /\ \A i, j \in DOMAIN opts : opts[i] = opts[j] => i = j
            /\ \A i \in DOMAIN beers[c], k \in DOMAIN opts :
                  Unclassified(beers[c][i]) => opts[k] # beers[c][i].style
            /\ JustFiltered(c) /\ el.styleFilter = <<>> /\ el.searchInput # <<>>
               => \A i \in DOMAIN beers[c] :
                     /\ Unclassified(beers[c][i])
                     /\ ContainsAnyCase(beers[c][i].style, el.searchInput)
                     /\ Keeps(c, beers[c][i], [el EXCEPT !.searchInput = <<>>])
                     => beers[c][i] \in Displayed(c)

\* a search has found a beer without a category by its raw style while the
\* style select offers the categories of other beers
UnclassifiedFoundBySearch ==
    \E c \in Clients :
        /\ JustFiltered(c)
        /\ elements[c].searchInput # <<>>
        /\ elements[c].styleOptions # <<>>
        /\ \E i \in DOMAIN filteredBeers[c] :
              /\ Unclassified(filteredBeers[c][i])
              /\ ContainsAnyCase(filteredBeers[c][i].style, elements[c].searchInput)

(***************************************************************************)
(* Properties of the sort.                                                 *)
(***************************************************************************)
\* the step is a call of sortTable by client c
SortStep(c) == initPc[c] = "ready" /\ initPc'[c] = "ready" /\ last'[c].op = "sort"

Flipped(direction) == IF direction = "asc" THEN "desc" ELSE "asc"

\* C18: the sort state starts as no column, ascending; a call of sortTable
\* on the active column keeps the column and flips the direction, a call on
\* another column makes that column active, ascending; no other step
\* changes the sort state
SortStateTransitions ==
    /\ \A c \in Clients : currentSort[c] = [column |-> "", direction |-> "asc"]
    /\ [][\A c \in Clients :
            IF SortStep(c)
            THEN \/ /\ currentSort'[c].column = currentSort[c].column
                    /\ currentSort'[c].direction = Flipped(currentSort[c].direction)
                 \/ /\ currentSort'[c].column \in Columns \ {currentSort[c].column}
                    /\ currentSort'[c].direction = "asc"
            ELSE currentSort'[c] = currentSort[c]]_vars

\* a column has been sorted descending and another column clicked after it
SortedAnotherColumn ==
    \E c \in Clients :
        /\ last[c].op = "sort"
        /\ currentSort[c] = [column |-> "beer", direction |-> "desc"]
        /\ Len(filteredBeers[c]) >= 2

\* no two beers of seq compare equal on the column
NoTies(c, column, seq) ==
    \A i, j \in DOMAIN seq :
        i # j => ValueLess(c, column, seq[i], seq[j]) \/ ValueLess(c, column, seq[j], seq[i])

Reverse(seq) == [i \in 1..Len(seq) |-> seq[Len(seq) + 1 - i]]

\* C19: when the displayed beers are as a sort on a column left them and no
\* two of them compare equal on it, a further sort on that column gives
\* exactly the reverse order, and two further sorts give the order back
SortAgainReverses ==
    /\ [](\A c \in Clients :
            LET column == currentSort[c].column
                direction == currentSort[c].direction
                shown == filteredBeers[c]
            IN  last[c].op = "sort" /\ NoTies(c, column, shown)
                => SortedBy(c, column, direction,
                            SortedBy(c, column, Flipped(direction), shown)) = shown)
    /\ [][\A c \in Clients :
            /\ SortStep(c)
            /\ last[c].op = "sort"
            /\ currentSort'[c].column = currentSort[c].column
            /\ NoTies(c, currentSort[c].column, filteredBeers[c])
            => filteredBeers'[c] = Reverse(filteredBeers[c])]_vars

\* three beers with distinct ABVs have been sorted by ABV and sorted again
SortedTwiceWithoutTies ==
    \E c \in Clients :
        /\ last[c].op = "sort"
        /\ currentSort[c] = [column |-> "abv", direction |-> "desc"]
        /\ Len(filteredBeers[c]) = 3
        /\ NoTies(c, "abv", filteredBeers[c])

\* the first of two keys of a column is not greater than the second: ABVs
\* and times as numbers, the other columns as lower-cased strings
KeyNotGreater(c, column, a, b) ==
    CASE column = "abv" -> a.abv <= b.abv
      [] column = "last_seen" -> LastSeen(c, a) <= LastSeen(c, b)
      [] OTHER -> ~StrLess(toLowerCase(ColumnValue(b, column)),
                           toLowerCase(ColumnValue(a, column)))

\* C20: after a sort every two adjacent displayed beers are in
\* non-decreasing key order when the direction is ascending and in
\* non-increasing order when it is descending, the key of the ABV column
\* being the number, 0 for an unparsed ABV, and the key of another column
\* the lower-cased string; sorted ascending by ABV, a beer of ABV 0 comes
\* before every beer of positive ABV
SortedInKeyOrder ==
    \A c \in Clients :
        LET column == currentSort[c].column
            shown == filteredBeers[c]
        IN  last[c].op = "sort"
            => /\ \A i \in 1..(Len(shown) - 1) :
                     IF currentSort[c].direction = "asc"
                     THEN KeyNotGreater(c, column, shown[i], shown[i + 1])
                     ELSE KeyNotGreater(c, column, shown[i + 1], shown[i])
               /\ column = "abv" /\ currentSort[c].direction = "asc"
                  => \A i, j \in DOMAIN shown :
                        shown[i].abv = 0 /\ shown[j].abv > 0 => i < j

\* a beer with an unparsed ABV has been sorted in front of a beer with a
\* positive one
UnparsedAbvSortedFirst ==
    \E c \in Clients :
        /\ last[c].op = "sort"
        /\ currentSort[c] = [column |-> "abv", direction |-> "asc"]
        /\ Len(filteredBeers[c]) = 2
        /\ filteredBeers[c][1].abv = 0
        /\ filteredBeers[c][2].abv > 0
        /\ filteredBeers[c] # beers[c]

(***************************************************************************)
(* Properties of the sort by recency.                                      *)
(***************************************************************************)
\* the cache marks the beer available
MarkedAvailable(c, beer) ==
    LET key == Key(beer.brewery, beer.beer)
    IN  key \in DOMAIN beerAvailability[c] /\ beerAvailability[c][key].is_available

\* the time the cache holds for the beer
MarkedAt(c, beer) == beerAvailability[c][Key(beer.brewery, beer.beer)].updated_at

ActorIdCreatedOnceAndReused ==
    /\ [](\A i \in DOMAIN toggles :
            toggles[i].request # <<>>
            => localStorage[toggles[i].client] = <<toggles[i].request[1].updated_by>>)
    /\ [](\A i, j \in DOMAIN toggles :
            /\ toggles[i].client = toggles[j].client
            /\ toggles[i].request # <<>> /\ toggles[j].request # <<>>
            => toggles[i].request[1].updated_by = toggles[j].request[1].updated_by)
    /\ [][\A c \in Clients :
            localStorage[c] # <<>> => localStorage'[c] = localStorage[c]]_vars

\* the browser whose first call could draw either identifier has written
\* twice, and the row it wrote last carries its identifier
WroteTwiceUnderOneId ==
    \E i, j \in DOMAIN toggles :
        /\ i < j
        /\ toggles[i].client = "c2" /\ toggles[j].client = "c2"
        /\ toggles[i].write = "ok" /\ toggles[j].write = "ok"
        /\ toggles[j].request[1].updated_by = "User_q"
        /\ localStorage["c1"] = <<>>
        /\ \E r \in store : r.updated_by = "User_q" /\ r.updated_at > 0

(***************************************************************************)
(* parseABV applied on its own to the text of an ABV cell: at most         *)
(* MaxAbvLen characters out of digits, the point, and the characters of    *)
(* "%" and "N/A".                                                          *)
(***************************************************************************)
MaxAbvLen == 4

AbvChars == {"0", "4", "5", ".", "%", "N", "/", "A", " "}

AbvTexts == UNION {[1..n -> AbvChars] : n \in 0..MaxAbvLen}

InitAbv == Constructed({}, {}) /\ input \in AbvTexts /\ output = <<>>

\* parseABV(abvText) returns
parseABVReturns ==
    /\ output = <<>>
    /\ output' = <<parseABV(input)>>
    /\ UNCHANGED <<appVars, input>>

NextAbv == parseABVReturns

SpecAbv == InitAbv /\ [][NextAbv]_vars

(***************************************************************************)
(* Properties of parseABV.                                                 *)
(***************************************************************************)
RECURSIVE Pow10(_)
Pow10(n) == IF n = 0 THEN 1 ELSE 10 * Pow10(n - 1)

\* the sum of f over the set S
RECURSIVE SumOver(_, _)
SumOver(f, S) ==
    IF S = {} THEN 0
    ELSE LET x == CHOOSE y \in S : TRUE IN f[x] + SumOver(f, S \ {x})

\* the positions from, from + 1, ... of s that hold digits without a gap
DigitRun(s, from) == {k \in from..Len(s) : \A m \in from..k : s[m] \in Digits}

\* the value, in thousandths, of the first numeric token of s: its first
\* run of digits, and the digits that follow a point right after the run
FirstNumber(s) ==
    LET digitAt == {k \in DOMAIN s : s[k] \in Digits}
        i == MinOf(digitAt)
        whole == DigitRun(s, i)
        j == MaxOf(whole)
        fraction == IF j + 1 <= Len(s) /\ s[j + 1] = "."
                    THEN DigitRun(s, j + 2)
                    ELSE {}
    IN  IF digitAt = {} THEN 0
        ELSE SumOver([m \in whole |-> DigitVal(s[m]) * Pow10(j - m) * AbvUnit], whole)
             + SumOver([m \in fraction |->
                          (DigitVal(s[m]) * AbvUnit) \div Pow10(m - j - 1)], fraction)

FourPointFivePercent == <<"4", ".", "5", "%">>
NotAvailable == <<"N", "/", "A">>
Five == <<"5">>

\* C23: parseABV returns the value of the first numeric token of the text,
\* an integer or a decimal, and 0 for a text without a digit: "4.5%" gives
\* 4.5, "N/A" gives 0 and "5" gives 5, in thousandths 4500, 0 and 5000
ParseAbvFirstNumber ==
    output # <<>>
    => /\ output[1] = FirstNumber(input)
       /\ input = FourPointFivePercent => output[1] = 4500
       /\ input = NotAvailable => output[1] = 0
       /\ input = Five => output[1] = 5000

\* "4.5%" has been parsed
ParsedFourPointFive ==
    output # <<>> /\ input = FourPointFivePercent /\ output[1] = 4500

(***************************************************************************)
(* Properties of the displayed beers and the rendered table, between       *)
(* operations.                                                             *)
(***************************************************************************)
\* the beer meets the availability filter, by the cache as it is now
MeetsAvailabilityFilter(c, beer) ==
    \/ elements[c].availabilityFilter = ""
    \/ (elements[c].availabilityFilter = "available") = getBeerAvailability(c, beer)

\* C24: while no operation of the client is in progress, every displayed
\* beer meets the availability filter by the cache as it is now, and every
\* loaded beer that meets all the filter criteria is displayed
FilterFollowsCache ==
    \A c \in Clients :
        ClientQuiet(c)
        => /\ \A i \in DOMAIN filteredBeers[c] :
                 MeetsAvailabilityFilter(c, filteredBeers[c][i])
           /\ \A i \in DOMAIN beers[c] :
                 Keeps(c, beers[c][i], elements[c]) => beers[c][i] \in Displayed(c)

\* the beers of a column in key order, in the direction of the sort
InSortOrder(c, shown) ==
    \A i \in 1..(Len(shown) - 1) :
        IF currentSort[c].direction = "asc"
        THEN KeyNotGreater(c, currentSort[c].column, shown[i], shown[i + 1])
        ELSE KeyNotGreater(c, currentSort[c].column, shown[i + 1], shown[i])

\* C25: whenever a sort column is active and no operation of the client is
\* in progress, the displayed beers are ordered by that column in the
\* active direction
DisplayedInSortOrder ==
    \A c \in Clients :
        ClientQuiet(c) /\ currentSort[c].column # ""
        => InSortOrder(c, filteredBeers[c])

\* C26: once init() has finished and while no operation of the client is in
\* progress, the table holds a row for each displayed beer, in order, whose
\* availability flag and last-seen time are what the cache holds now
RenderedFollowsCache ==
    \A c \in Clients :
        ClientQuiet(c) /\ beers[c] # <<>>
        => tableBody[c] = renderTable(filteredBeers[c], beerAvailability[c])

(***************************************************************************)
(* Properties of the first filter pass after a load.                       *)
(***************************************************************************)
\* the step is the first filter pass after the load, and it finds every
\* input as the load left it
FirstPassWithDefaults(c) ==
    /\ beers[c] # <<>>
    /\ last[c].op = ""
    /\ last'[c].op = "filter"
    /\ elements'[c] = elements[c]

\* C27 as stated: the first filter pass after a load, run with the inputs
\* untouched, leaves the displayed beers as the load displayed them
FirstPassChangesNothing ==
    [][\A c \in Clients :
          FirstPassWithDefaults(c) => filteredBeers'[c] = filteredBeers[c]]_vars

PositiveAbvs(bs) == {bs[i].abv : i \in DOMAIN bs} \ {0}

\* the beers of bs within the default ABV range: those with a positive ABV,
\* and those with ABV 0 when the least positive ABV is below 1
InDefaultRange(bs) ==
    LET Within(beer) == beer.abv > 0 \/ MinOf(PositiveAbvs(bs)) < AbvUnit
    IN  SelectSeq(bs, Within)

\* C27: until the first handler runs after a load, the displayed beers are
\* all the loaded beers; when some beer has a positive ABV, the first
\* filter pass run with the inputs untouched displays the beers with a
\* positive ABV, and those with ABV 0 only when the least positive ABV is
\* below 1
FirstPassKeepsDefaultRange ==
    /\ [](\A c \in Clients :
            beers[c] # <<>> /\ last[c].op = "" => filteredBeers[c] = beers[c])
    /\ [][\A c \in Clients :
            FirstPassWithDefaults(c) /\ PositiveAbvs(beers[c]) # {}
            => filteredBeers'[c] = InDefaultRange(beers[c])]_vars

\* a filter pass with no criterion chosen has dropped a beer with ABV 0
\* and kept a beer with a positive ABV
DefaultsDroppedUnparsedAbv ==
    \E c \in Clients :
        /\ JustFiltered(c)
        /\ elements[c] = populateFilters(beers[c], MarkupElements)
        /\ Len(beers[c]) = 2
        /\ Len(filteredBeers[c]) = 1
        /\ filteredBeers[c][1].abv > 0
        /\ \E i \in DOMAIN beers[c] : beers[c][i].abv = 0

(***************************************************************************)
(* Properties of the loaded beers.                                         *)
(***************************************************************************)
\* how often x occurs in seq
Occurrences(seq, x) == Cardinality({i \in DOMAIN seq : seq[i] = x})

\* C28: once beers are loaded no step changes them, their order or their
\* fields; a sort leaves in the displayed beers what was in them, as often;
\* and every displayed beer is a loaded beer, displayed no more often than
\* it is loaded
LoadedBeersNeverChange ==
    /\ [](\A c \in Clients : \A i \in DOMAIN filteredBeers[c] :
            /\ Occurrences(beers[c], filteredBeers[c][i]) >= 1
            /\ Occurrences(filteredBeers[c], filteredBeers[c][i])
                  <= Occurrences(beers[c], filteredBeers[c][i]))
    /\ [][\A c \in Clients :
            /\ beers[c] # <<>> => beers'[c] = beers[c]
            /\ SortStep(c)
               => /\ Len(filteredBeers'[c]) = Len(filteredBeers[c])
                  /\ \A i \in DOMAIN filteredBeers[c] :
                        Occurrences(filteredBeers'[c], filteredBeers[c][i])
                          = Occurrences(filteredBeers[c], filteredBeers[c][i])]_vars

\* with a toggle written and reloaded, a sort has put the displayed beers in
\* another order than the loaded beers
SortedAfterToggle ==
    \E c \in Clients :
        /\ last[c].op = "sort"
        /\ \E i \in DOMAIN toggles : toggles[i].pc = "done" /\ toggles[i].reload = "ok"
        /\ beerAvailability[c] # EmptyMap
        /\ Len(filteredBeers[c]) = Len(beers[c])
        /\ filteredBeers[c] # beers[c]

(***************************************************************************)
(* Properties of a toggle whose point read fails.                          *)
(***************************************************************************)
\* the toggles between their point read and their return whose point read
\* returned an error (no row, or another one) or threw
ReadFailed ==
    {i \in DOMAIN toggles :
        toggles[i].pc # "done" /\ toggles[i].read \in {"no row", "failed"}}

\* C29: a toggle whose point read returns an error or throws takes the
\* record for absent and unavailable and issues an insert of
\* is_available = TRUE; no toggle returns from its point read, and the
\* failure of the read puts up no alert
FailedReadGoesOnToInsert ==
    /\ [](\A i \in ReadFailed :
            /\ ~toggles[i].currentStatus
            /\ ~toggles[i].recordExists
            /\ toggles[i].request # <<>>
            /\ toggles[i].request[1].kind = "insert"
            /\ toggles[i].request[1].is_available
            /\ toggles[i].calls.write = 1
            /\ toggles[i].alert = "")
    /\ [][\A i \in DOMAIN toggles :
            toggles[i].pc = "read"
            => /\ toggles'[i].pc \in {"read", "write"}
               /\ toggles'[i].alert = ""]_vars

\* a toggle whose point read failed has inserted the row of its beer
InsertedAfterFailedRead ==
    \E i \in DOMAIN toggles :
        /\ toggles[i].pc = "reload"
        /\ toggles[i].read = "failed"
        /\ toggles[i].write = "ok"
        /\ \E r \in Matching(store, toggles[i].beer.brewery, toggles[i].beer.beer) :
              r.is_available

(***************************************************************************)
(* Termination of a toggle, and the calls it issues.                       *)
(***************************************************************************)
\* the calls toggle i has issued are at most one point read, then at most
\* one write, then at most one bulk reload, the reload after a write that
\* returned without error
CallsInOrder(i) ==
    LET t == toggles[i]
    IN  /\ t.calls.read <= 1
        /\ t.calls.write <= t.calls.read
        /\ t.calls.reload <= t.calls.write
        /\ t.calls.reload = 1 => t.write = "ok"
        /\ t.request # <<>> <=> t.calls.write = 1

\* C30: with a backend that settles every call, every toggle that was
\* started returns; a toggle issues at most one point read, then at most one
\* write, then at most one bulk reload and that only after a write without
\* error, and the count of no call goes down or up by more than one
EveryToggleReturns ==
    /\ \A i \in 1..MaxToggles :
          (i \in DOMAIN toggles) ~> (i \in DOMAIN toggles /\ toggles[i].pc = "done")
    /\ [](\A i \in DOMAIN toggles : CallsInOrder(i))
    /\ [][\A i \in DOMAIN toggles :
            /\ toggles'[i].calls.read = toggles[i].calls.read
            /\ toggles'[i].calls.write - toggles[i].calls.write \in {0, 1}
            /\ toggles'[i].calls.reload - toggles[i].calls.reload \in {0, 1}
            /\ toggles[i].pc = "done" => toggles'[i] = toggles[i]]_vars

\* a toggle has returned after its point read, its write and its reload
ReturnedAfterThreeCalls ==
    \E i \in DOMAIN toggles :
        /\ toggles[i].pc = "done"
        /\ toggles[i].calls = [read |-> 1, write |-> 1, reload |-> 1]
        /\ toggles[i].reload \in {"ok", "failed"}

====
